---- MODULE Spec2Model ----
(***************************************************************************)
(* Codex-Wrapper: the subprocess adapters (app/codex.py run_codex and      *)
(* run_codex_last_message), the stdout line filter (_CodexOutputFilter)    *)
(* and the streaming endpoints (app/main.py event_gen).                    *)
(*                                                                         *)
(* Text is modelled as sequences of one-character strings so that the     *)
(* string operations of the code (strip, lower, startswith, the timestamp  *)
(* regular expression) are computed and not assumed.                       *)
(***************************************************************************)
EXTENDS Integers, Sequences, FiniteSets, TLC

VARIABLES
    \* ---- settings and the line filter driven on its own ----
    hide_reasoning,   \* settings.hide_reasoning (the filter never reads it)
    f_filter,         \* the _CodexOutputFilter instance's three flags
    f_hist,           \* raw lines handed to process() so far
    f_out,            \* what process() returned that was not None: [src, text]
    f_script,         \* 0: free input; k > 0: replay of Scripts[k]
    \* ---- one adapter call and its child process ----
    mode,             \* "stream" (run_codex) or "last" (run_codex_last_message)
    pc,               \* position of the adapter coroutine
    outcome,          \* how the call ends: [kind, msg, launch]
    child,            \* "none" | "running" | "exited" (not reaped) | "reaped"
    hang,             \* TRUE: this child never exits on its own
    exitcode,         \* status the child ended with (Killed after SIGKILL)
    returncode,       \* proc.returncode as asyncio reports it (NoCode = None)
    stdout_pipe,      \* lines written by the child and not yet read
    stdout_open,      \* the child still holds the write end of stdout
    stdout_all,       \* every line the child ever wrote to stdout
    stderr_data,      \* the bytes the child wrote to stderr
    nread,            \* number of stdout lines readline() has returned
    rc_filter,        \* run_codex's output_filter
    yielded,          \* fragments handed to the consumer: [src, text]
    file_exists,      \* the --output-last-message temp file exists
    file_text,        \* its content
    remove_failed,    \* os.remove raised (and was swallowed)
    read_failed,      \* reading the captured file raised (and was swallowed)
    result,           \* the text run_codex_last_message returned
    \* ---- one streaming HTTP response (event_gen) ----
    endpoint,         \* "chat" | "responses"
    fc_supported,     \* function_call_supported (chat only)
    fc_disabled,      \* function_call_disabled (chat only)
    sse_pc,           \* position of event_gen
    sse_events,       \* the events written to the response body
    sse_buf,          \* buffered / buf: the fragments collected
    sse_err,          \* run_codex raised CodexError inside this stream
    finish_reason,    \* finish_reason of the chat stream's final chunk
    \* ---- _sanitize_codex_text applied to a text and to its own result ----
    san_pc,           \* "build" | "once" | "twice"
    san_pieces,       \* number of pieces the text was built from
    san_in,           \* the text
    san_once,         \* _sanitize_codex_text(san_in)
    san_twice,        \* _sanitize_codex_text(san_once)
    \* ---- a model listing, parsed and turned into a catalog ----
    lst_kind,         \* shape of the input: a JSON envelope, plaintext, config.toml
    lst_pc,           \* "build" | "parsed" | "augmented"
    lst_n,            \* number of entries, lines or profiles added
    lst_items,        \* the JSON entries, or the profiles of config.toml
    lst_text,         \* the plaintext listing
    lst_top,          \* the top-level `model` of config.toml
    lst_models,       \* what the parser returned
    lst_catalog,      \* _augment_models of it
    \* ---- _probe_models_via_proto and its child ----
    pr_pc,            \* position of the probe coroutine
    pr_child,         \* "none" | "running" | "exited" (not reaped) | "reaped"
    pr_returncode,    \* proc.returncode (NoCode = None)
    pr_stdout_open,   \* the child still holds the write end of stdout
    pr_pipe,          \* lines written by the child and not yet read
    pr_discovered,    \* `discovered` (NoneStr = None)
    pr_pending,       \* the exception in flight while the finally clause runs
    pr_cleanup,       \* what the finally clause has done, in order
    pr_out,           \* how the probe ended: [kind, models]
    \* ---- list_codex_models ----
    disc_pc,          \* position of list_codex_models
    disc_k,           \* index of the listing variant in `attempts`
    disc_child,       \* the listing child: "none" | "running"
    disc_tried,       \* the strategies attempted so far, in order
    disc_yields,      \* what each attempted strategy yielded (<<>>: no models)
    disc_errors,      \* `errors`: [strategy, reason]
    disc_out,         \* how list_codex_models ended: [kind, models, detail]
    \* ---- the model registry and its readers ----
    reg_pc,           \* position of initialize_model_registry
    reg_runs,         \* number of times initialize_model_registry was started
    heap,             \* the list objects _AVAILABLE_MODELS has been bound to
    reg_ref,          \* the object _AVAILABLE_MODELS is bound to now
    reg_last_error,   \* _LAST_ERROR is not None
    reg_out,          \* how initialize_model_registry ended: [kind, models]
    reg_history,      \* the catalogs _AVAILABLE_MODELS has been assigned
    rd,               \* what the last reader call was given
    \* ---- settings and one call of _build_cmd_and_env ----
    sandbox_mode,     \* settings.sandbox_mode
    workspace_network_access,   \* settings.workspace_network_access
    bc_pc,            \* "idle" | "args" | "done"
    bc_overrides,     \* `overrides`: the items of the dict, in order
    bc_images,        \* `images`
    bc_model,         \* `model` (NoneStr = None)
    bc_out,           \* how the call ended: [kind, cmd]
    \* ---- one chat completion: the handler after the prompt was built ----
    ch_pc,            \* position of chat_completions / event_gen
    ch_stream,        \* req.stream
    ch_functions,     \* req.functions is a non-empty list
    ch_function_call, \* req.function_call: "absent", "auto", "none" or "forced"
    ch_output,        \* what the adapter delivers: [frags, json, fence]
    ch_next,          \* index of the next fragment run_codex yields
    ch_buffered,      \* buffered
    ch_events,        \* the chunks written to the stream
    ch_finish,        \* finish_reason ("unset": not assigned)
    ch_message,       \* message of the JSON response: [content, function_call]
    ch_raised,        \* the exception that left the handler ("none": none)
    \* ---- one request with image attachments (app/main.py) ----
    im_endpoint,      \* "chat" or "responses"
    im_stream,        \* req.stream
    im_urls,          \* number of image URLs in the request
    im_paths,         \* image_paths: the temp files saved so far
    im_exists,        \* the temp files that exist on disk
    im_pc,            \* position of the handler
    im_gen,           \* position of event_gen
    im_child,         \* the codex child: "none", "running", "exited"
    im_args,          \* the --image paths the child was launched with
    im_seen,          \* what the child found when it opened them
    im_status,        \* HTTP status of the handler (0: not answered)
    im_sandbox,       \* x_codex.sandbox of the request ("unset": not given)
    im_allow,         \* settings.allow_danger_full_access
    \* ---- run_codex and the two pipes of its child ----
    sp_script,        \* what the child does before it exits with status 0
    sp_ip,            \* index of the child's next step
    sp_child,         \* "running", "exited", "killed"
    sp_out_open,      \* the child holds the write end of stdout
    sp_stdout,        \* lines written to stdout and not read yet
    sp_stderr,        \* chunks written to stderr; nobody reads them
    sp_pc,            \* position of run_codex
    sp_processed,     \* stdout lines handed to the filter
    sp_outcome        \* how run_codex ended

filterVars == <<hide_reasoning, f_filter, f_hist, f_out, f_script>>
runVars == <<mode, pc, outcome, child, hang, exitcode, returncode, stdout_pipe,
             stdout_open, stdout_all, stderr_data, nread, rc_filter,
             yielded, file_exists, file_text, remove_failed, read_failed, result>>
sseVars == <<endpoint, fc_supported, fc_disabled, sse_pc, sse_events, sse_buf,
             sse_err, finish_reason>>
sanVars == <<san_pc, san_pieces, san_in, san_once, san_twice>>
listVars == <<lst_kind, lst_pc, lst_n, lst_items, lst_text, lst_top, lst_models,
              lst_catalog>>
probeVars == <<pr_pc, pr_child, pr_returncode, pr_stdout_open, pr_pipe,
               pr_discovered, pr_pending, pr_cleanup, pr_out>>
listingVars == <<disc_pc, disc_k, disc_child, disc_tried, disc_yields, disc_errors,
                 disc_out>>
regVars == <<reg_pc, reg_runs, heap, reg_ref, reg_last_error, reg_out, reg_history>>
discVars == <<probeVars, listingVars, regVars, rd>>
cmdVars == <<sandbox_mode, workspace_network_access, bc_pc, bc_overrides, bc_images,
             bc_model, bc_out>>
chatVars == <<ch_pc, ch_stream, ch_functions, ch_function_call, ch_output, ch_next,
              ch_buffered, ch_events, ch_finish, ch_message, ch_raised>>
imgVars == <<im_endpoint, im_stream, im_urls, im_paths, im_exists, im_pc, im_gen,
             im_child, im_args, im_seen, im_status, im_sandbox, im_allow>>
pipeVars == <<sp_script, sp_ip, sp_child, sp_out_open, sp_stdout, sp_stderr, sp_pc,
              sp_processed, sp_outcome>>
moreVars == <<cmdVars, chatVars, imgVars, pipeVars>>
catalogVars == <<sanVars, listVars, discVars, moreVars>>
vars == <<filterVars, runVars, sseVars, catalogVars>>
nonCmdVars == <<filterVars, runVars, sseVars, sanVars, listVars, discVars, chatVars,
                imgVars, pipeVars>>
nonChatVars == <<filterVars, runVars, sseVars, sanVars, listVars, discVars, cmdVars,
                 imgVars, pipeVars>>
nonImgVars == <<filterVars, runVars, sseVars, sanVars, listVars, discVars, cmdVars,
                chatVars, pipeVars>>
nonPipeVars == <<filterVars, runVars, sseVars, sanVars, listVars, discVars, cmdVars,
                 chatVars, imgVars>>

-----------------------------------------------------------------------------
(* Bounds *)

MaxFilterLines == 3     \* lines fed to a free-running filter
MaxStdoutLines == 3     \* lines a child writes to stdout
MaxFragments == 2       \* fragments run_codex yields into one event_gen

-----------------------------------------------------------------------------
(* Python string operations on character sequences *)

UpperChars ==
    <<"A","B","C","D","E","F","G","H","I","J","K","L","M","N","O","P","Q","R","S","T","U","V","W","X","Y","Z">>
LowerChars ==
    <<"a","b","c","d","e","f","g","h","i","j","k","l","m","n","o","p","q","r","s","t","u","v","w","x","y","z">>
Digits == {"0","1","2","3","4","5","6","7","8","9"}
Range(s) == {s[i] : i \in DOMAIN s}
Letters == Range(UpperChars) \cup Range(LowerChars)

\* str.isalnum() of one character
IsAlnum(c) == c \in Letters \cup Digits

\* str.lower() of one character
LowerChar(c) ==
    IF c \in Range(UpperChars)
    THEN LowerChars[CHOOSE i \in DOMAIN UpperChars : UpperChars[i] = c]
    ELSE c

\* str.lower()
StrLower(s) == [i \in 1..Len(s) |-> LowerChar(s[i])]

\* the characters str.strip() removes by default
Whitespace == {" ", "\t", "\n", "\r", "\f"}

\* the length left after removing trailing characters of cs
RECURSIVE RStripLen(_, _, _)
RStripLen(s, cs, n) ==
    IF n > 0 /\ s[n] \in cs THEN RStripLen(s, cs, n - 1) ELSE n

\* the index of the first character not in cs (Len(s)+1 when there is none)
RECURSIVE LStripIdx(_, _, _)
LStripIdx(s, cs, i) ==
    IF i <= Len(s) /\ s[i] \in cs THEN LStripIdx(s, cs, i + 1) ELSE i

\* str.rstrip(chars)
StrRStrip(s, cs) == SubSeq(s, 1, RStripLen(s, cs, Len(s)))

\* str.strip()
StrStrip(s) ==
    LET r == StrRStrip(s, Whitespace)
    IN  SubSeq(r, LStripIdx(r, Whitespace, 1), Len(r))

\* str.startswith(prefix)
StartsWith(s, p) == Len(s) >= Len(p) /\ SubSeq(s, 1, Len(p)) = p

\* `needle in s`
Contains(s, p) ==
    \E i \in 1..(Len(s) - Len(p) + 1) : SubSeq(s, i, i + Len(p) - 1) = p

-----------------------------------------------------------------------------
(* app/codex.py: the line filter *)

\* length of a match of _TIMESTAMP_LINE: "[" 4d "-" 2d "-" 2d "T" 2d ":" 2d ":" 2d "]"
TimestampLen == 21

TimestampDigitPositions == {2,3,4,5,7,8,10,11,13,14,16,17,19,20}

\* a pattern that matches nothing
TimestampMatch_Never(text) == FALSE

\* _TIMESTAMP_LINE.match(text) is not None
TimestampMatch(text) ==
    /\ Len(text) >= TimestampLen
    /\ text[1] = "["
    /\ \A i \in TimestampDigitPositions : text[i] \in Digits
    /\ text[6] = "-" /\ text[9] = "-"
    /\ text[12] = "T"
    /\ text[15] = ":" /\ text[18] = ":"
    /\ text[21] = "]"

_KNOWN_METADATA_PREFIXES == {
    <<"w","o","r","k","d","i","r",":">>,
    <<"m","o","d","e","l",":">>,
    <<"p","r","o","v","i","d","e","r",":">>,
    <<"a","p","p","r","o","v","a","l",":">>,
    <<"s","a","n","d","b","o","x",":">>,
    <<"r","e","a","s","o","n","i","n","g"," ","e","f","f","o","r","t",":">>,
    <<"r","e","a","s","o","n","i","n","g"," ","s","u","m","m","a","r","i","e","s",":">>,
    <<"t","o","k","e","n","s"," ","u","s","e","d",":">>,
    <<"u","s","e","r"," ","i","n","s","t","r","u","c","t","i","o","n","s",":">>,
    <<"u","s","e","r",":">>,
    <<"s","e","a","r","c","h","e","d",":">>,
    <<"s","e","a","r","c","h","i","n","g",":">>,
    <<"r","e","t","r","y","i","n","g"," ">>,
    <<"e","r","r","o","r",":">> }

P_user_instructions == <<"u","s","e","r"," ","i","n","s","t","r","u","c","t","i","o","n","s",":">>
P_user == <<"u","s","e","r",":">>
P_assistant_colon == <<"a","s","s","i","s","t","a","n","t",":">>
P_assistant == <<"a","s","s","i","s","t","a","n","t">>
P_sp_codex == <<" ","c","o","d","e","x">>

RECURSIVE FirstAlnum(_, _)
FirstAlnum(value, idx) ==
    IF idx <= Len(value) /\ ~IsAlnum(value[idx])
    THEN FirstAlnum(value, idx + 1)
    ELSE idx

\* leading symbols kept
_strip_leading_symbols_keep(value) == value

\* _strip_leading_symbols(value)
_strip_leading_symbols(value) ==
    SubSeq(value, FirstAlnum(value, 1), Len(value))

\* a metadata test that also takes the word 'thinking' for a marker
_is_metadata_line_thinking(text) ==
    \/ TimestampMatch(text)
    \/ LET normal == _strip_leading_symbols(StrLower(text))
       IN  \/ \E prefix \in _KNOWN_METADATA_PREFIXES : StartsWith(normal, prefix)
           \/ StartsWith(normal, <<"t","h","i","n","k","i","n","g">>)

\* _is_metadata_line(text)
_is_metadata_line(text) ==
    \/ TimestampMatch(text)
    \/ LET normal == _strip_leading_symbols(StrLower(text))
       IN  \E prefix \in _KNOWN_METADATA_PREFIXES : StartsWith(normal, prefix)

\* _looks_like_codex_marker(text)
_looks_like_codex_marker(text) ==
    LET lowered == StrLower(text)
    IN  \/ StartsWith(lowered, P_assistant)
        \/ (TimestampMatch(text) /\ Contains(lowered, P_sp_codex))

\* a filter that starts as if content had been emitted
FilterInit_Emitted ==
    [saw_assistant |-> FALSE, emitted_any |-> TRUE, in_user_block |-> FALSE]

\* _CodexOutputFilter.__init__
FilterInit ==
    [saw_assistant |-> FALSE, emitted_any |-> FALSE, in_user_block |-> FALSE]

\* the value None of process(), and a returned string
NoOutput == [some |-> FALSE, text |-> <<>>]
Output(text) == [some |-> TRUE, text |-> text]

\* process() letting the lines of an instructions echo through
Process_EchoThrough(self, raw_line) ==
    LET line == StrRStrip(raw_line, {"\r", "\n"})
        stripped == StrStrip(line)
        lowered == StrLower(stripped)
        normalized ==
            IF TimestampMatch(stripped)
            THEN _strip_leading_symbols(
                     StrLower(StrStrip(SubSeq(stripped, TimestampLen + 1, Len(stripped)))))
            ELSE _strip_leading_symbols(lowered)
    IN  IF StartsWith(normalized, P_user_instructions) \/ StartsWith(normalized, P_user)
        THEN [st |-> [self EXCEPT !.in_user_block = TRUE], out |-> NoOutput]
        ELSE IF StartsWith(normalized, P_assistant_colon)
        THEN [st |-> [self EXCEPT !.in_user_block = FALSE, !.saw_assistant = TRUE],
              out |-> NoOutput]
        ELSE IF stripped = <<>>
        THEN [st |-> self,
              out |-> IF self.in_user_block THEN NoOutput
                      ELSE IF self.emitted_any THEN Output(<<"\n">>)
                      ELSE NoOutput]
        ELSE IF self.in_user_block
        THEN [st |-> IF _looks_like_codex_marker(stripped)
                     THEN [self EXCEPT !.in_user_block = FALSE]
                     ELSE self,
              out |-> Output(line \o <<"\n">>)]
        ELSE IF _is_metadata_line(stripped)
        THEN [st |-> self, out |-> NoOutput]
        ELSE [st |-> [self EXCEPT !.saw_assistant = TRUE, !.emitted_any = TRUE],
              out |-> Output(line \o <<"\n">>)]

\* _CodexOutputFilter.process(raw_line): the new flags and the value returned
Process(self, raw_line) ==
    LET line == StrRStrip(raw_line, {"\r", "\n"})
        stripped == StrStrip(line)
        lowered == StrLower(stripped)
        normalized ==
            IF TimestampMatch(stripped)
            THEN _strip_leading_symbols(
                     StrLower(StrStrip(SubSeq(stripped, TimestampLen + 1, Len(stripped)))))
            ELSE _strip_leading_symbols(lowered)
    IN  IF StartsWith(normalized, P_user_instructions) \/ StartsWith(normalized, P_user)
        THEN [st |-> [self EXCEPT !.in_user_block = TRUE], out |-> NoOutput]
        ELSE IF StartsWith(normalized, P_assistant_colon)
        THEN [st |-> [self EXCEPT !.in_user_block = FALSE, !.saw_assistant = TRUE],
              out |-> NoOutput]
        ELSE IF stripped = <<>>
        THEN [st |-> self,
              out |-> IF self.in_user_block THEN NoOutput
                      ELSE IF self.emitted_any THEN Output(<<"\n">>)
                      ELSE NoOutput]
        ELSE IF self.in_user_block
        THEN [st |-> IF _looks_like_codex_marker(stripped)
                     THEN [self EXCEPT !.in_user_block = FALSE]
                     ELSE self,
              out |-> NoOutput]
        ELSE IF _is_metadata_line(stripped)
        THEN [st |-> self, out |-> NoOutput]
        ELSE [st |-> [self EXCEPT !.saw_assistant = TRUE, !.emitted_any = TRUE],
              out |-> Output(line \o <<"\n">>)]

-----------------------------------------------------------------------------
(* Input lines: the transcripts of the repository's tests and variants *)

L_ts_thinking ==
    <<"[","2","0","2","5","-","0","9","-","1","5","T","0","6",":","5","3",":","4","0","]"," ","t","h","i","n","k","i","n","g","\n">>
L_blank ==
    <<"\n">>
L_first ==
    <<"F","i","r","s","t"," ","r","e","a","s","o","n","i","n","g"," ","s","t","e","p","\n">>
L_second ==
    <<"S","e","c","o","n","d"," ","r","e","a","s","o","n","i","n","g"," ","s","t","e","p","\n">>
L_ts_codex ==
    <<"[","2","0","2","5","-","0","9","-","1","5","T","0","6",":","5","3",":","4","2","]"," ","c","o","d","e","x","\n">>
L_final ==
    <<"F","i","n","a","l"," ","a","n","s","w","e","r"," ","l","i","n","e","\n">>
L_thinking_about ==
    <<"t","h","i","n","k","i","n","g"," ","a","b","o","u","t"," ","t","h","e"," ","r","e","s","u","l","t","\n">>
L_user_instructions ==
    <<"U","s","e","r"," ","i","n","s","t","r","u","c","t","i","o","n","s",":","\n">>
L_tokens ==
    <<"-"," ","T","o","k","e","n","s"," ","u","s","e","d",":"," ","1","2","3","\n">>
L_assistant ==
    <<"A","s","s","i","s","t","a","n","t",":"," ","h","i","\n">>
L_ts_hello ==
    <<"[","2","0","2","5","-","0","9","-","1","5","T","0","6",":","5","3",":","4","1","]"," ","H","e","l","l","o","\r","\n">>

\* samples of workspace/test_filter.py and markers of the specification's kind
L_ts_user ==
    <<"[","2","0","2","5","-","0","9","-","1","5","T","0","6",":","5","3",":","4","0","]"," ","U","s","e","r",":"," ","n","a","m","e","?","\n">>
L_assistant_bare ==
    <<"A","s","s","i","s","t","a","n","t",":","\n">>
L_spaces ==
    <<" "," ","\r","\n">>
L_sym_model ==
    <<">",">"," ","M","o","d","e","l",":"," ","o","3","\n">>

\* SAMPLE_LINES of tests/test_codex_reasoning_filter.py
SAMPLE_LINES ==
    <<L_ts_thinking, L_blank, L_first, L_second, L_ts_codex, L_blank, L_final>>

\* the transcript of test_words_starting_with_thinking_are_preserved
WORDS_LINES == <<L_ts_codex, L_blank, L_thinking_about>>

Scripts == <<SAMPLE_LINES, WORDS_LINES>>

\* the lines a free-running filter is fed
FilterPool ==
    {L_ts_thinking, L_blank, L_first, L_ts_codex, L_final, L_thinking_about,
     L_user_instructions, L_tokens, L_assistant, L_ts_hello,
     L_ts_user, L_assistant_bare, L_spaces, L_sym_model}

-----------------------------------------------------------------------------
(* The filter driven line by line, as run_codex and _sanitize_codex_text do *)

FilterIdle ==
    /\ f_filter = FilterInit
    /\ f_hist = <<>>
    /\ f_out = <<>>
    /\ f_script = 0

\* one pass of the read loop's body on the next raw line
FilterStep(raw) ==
    LET r == Process(f_filter, raw)
    IN  /\ f_filter' = r.st
        /\ f_hist' = Append(f_hist, raw)
        /\ f_out' = IF r.out.some
                    THEN Append(f_out, [src |-> Len(f_hist) + 1, text |-> r.out.text])
                    ELSE f_out
        /\ UNCHANGED <<hide_reasoning, f_script>>

FilterFeed ==
    /\ f_script = 0
    /\ Len(f_hist) < MaxFilterLines
    /\ \E raw \in FilterPool : FilterStep(raw)
    /\ UNCHANGED <<runVars, sseVars, catalogVars>>

FilterReplay ==
    /\ f_script > 0
    /\ Len(f_hist) < Len(Scripts[f_script])
    /\ FilterStep(Scripts[f_script][Len(f_hist) + 1])
    /\ UNCHANGED <<runVars, sseVars, catalogVars>>

-----------------------------------------------------------------------------
(* Values of the adapter model *)

NoCode == -1000          \* proc.returncode is None
Killed == -9             \* the status of a child ended by SIGKILL

\* a byte sequence that is not valid UTF-8, as one token
InvalidByte == "\\xff"

\* bytes.decode() raises UnicodeDecodeError
DecodeFails(bytes) == InvalidByte \in Range(bytes)

\* bytes.decode(errors="ignore")
DecodeIgnore(bytes) == SelectSeq(bytes, LAMBDA c : c # InvalidByte)

\* CodexError("codex execution failed") / ("codex execution timed out")
MsgFailed ==
    <<"c","o","d","e","x"," ","e","x","e","c","u","t","i","o","n"," ","f","a","i","l","e","d">>
MsgTimedOut ==
    <<"c","o","d","e","x"," ","e","x","e","c","u","t","i","o","n"," ","t","i","m","e","d"," ","o","u","t">>

NoOutcome == [kind |-> "none", msg |-> <<>>, launch |-> FALSE]
Raised(kind, msg) == [kind |-> kind, msg |-> msg, launch |-> FALSE]
Returned == [kind |-> "return", msg |-> <<>>, launch |-> FALSE]

\* what the except clauses of run_codex make of each launch exception
LaunchErrors == {"FileNotFoundError", "PermissionError", "OSError"}

\* stdout lines, stderr contents, exit statuses and captured files of the child
RunPool == {L_final, L_blank, L_tokens}
StderrPool ==
    { <<>>, <<" ","\n">>, <<" ","b","o","o","m","\n">>, <<"b",InvalidByte,"\n">> }
ExitCodes == {0, 1}
FilePool == { <<>>, L_final, L_tokens, <<InvalidByte>> }

\* str.splitlines()
LineBreaks == {"\n", "\r", "\f"}
RECURSIVE BreakIdx(_, _)
BreakIdx(text, i) ==
    IF i <= Len(text) /\ text[i] \notin LineBreaks THEN BreakIdx(text, i + 1) ELSE i
RECURSIVE SplitLines(_)
SplitLines(text) ==
    IF text = <<>> THEN <<>>
    ELSE LET i == BreakIdx(text, 1)
             skip == IF i < Len(text) /\ text[i] = "\r" /\ text[i + 1] = "\n"
                     THEN 2 ELSE 1
         IN  <<SubSeq(text, 1, i - 1)>> \o SplitLines(SubSeq(text, i + skip, Len(text)))

RECURSIVE SanitizeParts(_, _)
SanitizeParts(filt, lines) ==
    IF lines = <<>> THEN <<>>
    ELSE LET r == Process(filt, Head(lines) \o <<"\n">>)
         IN  (IF r.out.some THEN r.out.text ELSE <<>>)
             \o SanitizeParts(r.st, Tail(lines))

\* _sanitize_codex_text removing one trailing newline instead of all of them
_sanitize_codex_text_chop(raw) ==
    LET joined == SanitizeParts(FilterInit, SplitLines(raw))
    IN  IF joined # <<>> /\ joined[Len(joined)] = "\n"
        THEN SubSeq(joined, 1, Len(joined) - 1)
        ELSE joined

\* _sanitize_codex_text(raw)
_sanitize_codex_text(raw) ==
    StrRStrip(SanitizeParts(FilterInit, SplitLines(raw)), {"\n"})

RECURSIVE Concat(_)
Concat(seqs) == IF seqs = <<>> THEN <<>> ELSE Head(seqs) \o Concat(Tail(seqs))

RunIdle ==
    /\ mode = "stream"
    /\ pc = "idle"
    /\ outcome = NoOutcome
    /\ child = "none"
    /\ hang = FALSE
    /\ exitcode = NoCode
    /\ returncode = NoCode
    /\ stdout_pipe = <<>>
    /\ stdout_open = FALSE
    /\ stdout_all = <<>>
    /\ stderr_data = <<>>
    /\ nread = 0
    /\ rc_filter = FilterInit
    /\ yielded = <<>>
    /\ file_exists = FALSE
    /\ file_text = <<>>
    /\ remove_failed = FALSE
    /\ read_failed = FALSE
    /\ result = <<>>

-----------------------------------------------------------------------------
(* The child process and the event loop's child watcher *)

procVars == <<child, exitcode, stdout_open>>
adapterVars == <<mode, pc, outcome, hang, returncode, nread, rc_filter, yielded,
                 remove_failed, read_failed, result>>

\* the child writes one line to stdout
ChildWrite ==
    /\ child = "running" /\ stdout_open
    /\ Len(stdout_all) < MaxStdoutLines
    /\ \E line \in RunPool :
         /\ stdout_pipe' = Append(stdout_pipe, line)
         /\ stdout_all' = Append(stdout_all, line)
    /\ UNCHANGED <<adapterVars, procVars, stderr_data, file_exists, file_text>>
    /\ UNCHANGED <<filterVars, sseVars, catalogVars>>

\* the child closes its stdout and keeps running
ChildCloseStdout ==
    /\ child = "running" /\ stdout_open
    /\ stdout_open' = FALSE
    /\ UNCHANGED <<adapterVars, child, exitcode, stdout_pipe, stdout_all,
                   stderr_data, file_exists, file_text>>
    /\ UNCHANGED <<filterVars, sseVars, catalogVars>>

\* the child writes its final message to the --output-last-message path
ChildWriteFile ==
    /\ child = "running" /\ mode = "last"
    /\ \E text \in FilePool : file_text' = text
    /\ file_exists' = TRUE
    /\ UNCHANGED <<adapterVars, procVars, stdout_pipe, stdout_all, stderr_data>>
    /\ UNCHANGED <<filterVars, sseVars, catalogVars>>

\* the child exits on its own
ChildExit ==
    /\ child = "running" /\ ~hang
    /\ child' = "exited"
    /\ stdout_open' = FALSE
    /\ \E code \in ExitCodes : exitcode' = code
    /\ \E err \in StderrPool : stderr_data' = err
    /\ UNCHANGED <<adapterVars, stdout_pipe, stdout_all, file_exists, file_text>>
    /\ UNCHANGED <<filterVars, sseVars, catalogVars>>

\* the event loop's child watcher collects the exit status
LoopReap ==
    /\ child = "exited"
    /\ child' = "reaped"
    /\ returncode' = exitcode
    /\ UNCHANGED <<mode, pc, outcome, hang, nread, rc_filter, yielded, remove_failed, read_failed,
                   result, exitcode, stdout_open, stdout_pipe, stdout_all,
                   stderr_data, file_exists, file_text>>
    /\ UNCHANGED <<filterVars, sseVars, catalogVars>>

\* the effect of SIGKILL on the child
KillChild ==
    IF child = "running"
    THEN child' = "exited" /\ exitcode' = Killed /\ stdout_open' = FALSE
    ELSE UNCHANGED procVars

-----------------------------------------------------------------------------
(* app/codex.py run_codex: the streaming adapter *)

\* the messages of the three except clauses around create_subprocess_exec
LaunchMsg(e) ==
    IF e = "FileNotFoundError" THEN
        <<"F","a","i","l","e","d"," ","t","o"," ","l","a","u","n","c","h"," ","c","o","d","e","x">>
    ELSE IF e = "PermissionError" THEN
        <<"P","e","r","m","i","s","s","i","o","n"," ","e","r","r","o","r"," ","l","a","u","n","c","h","i","n","g"," ","c","o","d","e","x">>
    ELSE
        <<"U","n","a","b","l","e"," ","t","o"," ","s","t","a","r","t"," ","c","o","d","e","x"," ","p","r","o","c","e","s","s">>

\* `err = stderr.decode().strip(); raise CodexError(err or "codex execution failed")`
StderrFailure(bytes) ==
    IF DecodeFails(bytes)
    THEN Raised("UnicodeDecodeError", <<>>)
    ELSE LET err == StrStrip(bytes)
         IN  Raised("CodexError", IF err # <<>> THEN err ELSE MsgFailed)

\* create_subprocess_exec and its except clauses
RC_Launch ==
    /\ mode = "stream" /\ pc = "start"
    /\ \/ /\ child' = "running" /\ stdout_open' = TRUE
          /\ pc' = "read"
          /\ UNCHANGED outcome
       \/ /\ \E e \in LaunchErrors :
               outcome' = [kind |-> "CodexError", msg |-> LaunchMsg(e), launch |-> TRUE]
          /\ pc' = "done"
          /\ UNCHANGED <<child, stdout_open>>
    /\ UNCHANGED <<mode, hang, exitcode, returncode, stdout_pipe, stdout_all,
                   stderr_data, nread, rc_filter, yielded, file_exists, file_text,
                   remove_failed, read_failed, result>>
    /\ UNCHANGED <<filterVars, sseVars, catalogVars>>

\* RC_ReadLine taking the newest buffered line instead of the oldest
RC_ReadLine_Newest ==
    /\ mode = "stream" /\ pc = "read"
    /\ stdout_pipe # <<>>
    /\ LET line == stdout_pipe[Len(stdout_pipe)]
           src == Len(stdout_all)
           r == Process(rc_filter, DecodeIgnore(line))
       IN  /\ stdout_pipe' = SubSeq(stdout_pipe, 1, Len(stdout_pipe) - 1)
           /\ nread' = nread + 1
           /\ rc_filter' = r.st
           /\ IF r.out.some
              THEN /\ yielded' = Append(yielded, [src |-> src, text |-> r.out.text])
                   /\ pc' = "yield"
              ELSE /\ UNCHANGED yielded
                   /\ pc' = "read"
    /\ UNCHANGED <<mode, outcome, hang, returncode, procVars, stdout_all, stderr_data,
                   file_exists, file_text, remove_failed, read_failed, result>>
    /\ UNCHANGED <<filterVars, sseVars, catalogVars>>

\* the read loop: readline returned a line; it is filtered and, when kept, yielded
RC_ReadLine ==
    /\ mode = "stream" /\ pc = "read"
    /\ stdout_pipe # <<>>
    /\ LET line == Head(stdout_pipe)
           src == Len(stdout_all) - Len(stdout_pipe) + 1
           r == Process(rc_filter, DecodeIgnore(line))
       IN  /\ stdout_pipe' = Tail(stdout_pipe)
           /\ nread' = nread + 1
           /\ rc_filter' = r.st
           /\ IF r.out.some
              THEN /\ yielded' = Append(yielded, [src |-> src, text |-> r.out.text])
                   /\ pc' = "yield"
              ELSE /\ UNCHANGED yielded
                   /\ pc' = "read"
    /\ UNCHANGED <<mode, outcome, hang, returncode, procVars, stdout_all, stderr_data,
                   file_exists, file_text, remove_failed, read_failed, result>>
    /\ UNCHANGED <<filterVars, sseVars, catalogVars>>

\* the consumer asks for the next fragment
RC_Next ==
    /\ mode = "stream" /\ pc = "yield"
    /\ pc' = "read"
    /\ UNCHANGED <<mode, outcome, hang, returncode, nread, rc_filter, yielded,
                   remove_failed, read_failed, result, procVars, stdout_pipe, stdout_all,
                   stderr_data, file_exists, file_text>>
    /\ UNCHANGED <<filterVars, sseVars, catalogVars>>

\* the consumer closes the generator while it is suspended at `yield`
RC_Close ==
    /\ mode = "stream" /\ pc = "yield"
    /\ outcome' = Raised("GeneratorExit", <<>>)
    /\ pc' = "finally"
    /\ UNCHANGED <<mode, hang, returncode, nread, rc_filter, yielded,
                   remove_failed, read_failed, result, procVars, stdout_pipe, stdout_all,
                   stderr_data, file_exists, file_text>>
    /\ UNCHANGED <<filterVars, sseVars, catalogVars>>

\* the task is cancelled while it awaits readline() or wait_for()
RC_Cancel ==
    /\ mode = "stream" /\ pc \in {"read", "wait"}
    /\ outcome' = Raised("CancelledError", <<>>)
    /\ pc' = "finally"
    /\ UNCHANGED <<mode, hang, returncode, nread, rc_filter, yielded,
                   remove_failed, read_failed, result, procVars, stdout_pipe, stdout_all,
                   stderr_data, file_exists, file_text>>
    /\ UNCHANGED <<filterVars, sseVars, catalogVars>>

\* readline returned b"": the loop breaks
RC_ReadEof ==
    /\ mode = "stream" /\ pc = "read"
    /\ stdout_pipe = <<>> /\ ~stdout_open
    /\ pc' = "wait"
    /\ UNCHANGED <<mode, outcome, hang, returncode, nread, rc_filter, yielded,
                   remove_failed, read_failed, result, procVars, stdout_pipe, stdout_all,
                   stderr_data, file_exists, file_text>>
    /\ UNCHANGED <<filterVars, sseVars, catalogVars>>

\* wait_for(proc.wait()) returned; the returncode check and the read of stderr
RC_WaitDone ==
    /\ mode = "stream" /\ pc = "wait"
    /\ returncode # NoCode
    /\ outcome' = IF returncode # 0 THEN StderrFailure(stderr_data) ELSE Returned
    /\ pc' = "finally"
    /\ UNCHANGED <<mode, hang, returncode, nread, rc_filter, yielded,
                   remove_failed, read_failed, result, procVars, stdout_pipe, stdout_all,
                   stderr_data, file_exists, file_text>>
    /\ UNCHANGED <<filterVars, sseVars, catalogVars>>

\* wait_for(proc.wait(), timeout) ran out of time
RC_WaitTimeout ==
    /\ mode = "stream" /\ pc = "wait"
    /\ returncode = NoCode
    /\ pc' = "except_timeout"
    /\ UNCHANGED <<mode, outcome, hang, returncode, nread, rc_filter, yielded,
                   remove_failed, read_failed, result, procVars, stdout_pipe, stdout_all,
                   stderr_data, file_exists, file_text>>
    /\ UNCHANGED <<filterVars, sseVars, catalogVars>>

\* `except asyncio.TimeoutError: proc.kill(); raise CodexError(...)`.  kill() on a
\* child the loop has meanwhile reaped either does nothing or raises
\* ProcessLookupError, depending on whether the transport has been torn down.
RC_TimeoutHandler ==
    /\ mode = "stream" /\ pc = "except_timeout"
    /\ \/ /\ returncode = NoCode
          /\ KillChild
          /\ outcome' = Raised("CodexError", MsgTimedOut)
       \/ /\ returncode # NoCode
          /\ UNCHANGED procVars
          /\ \/ outcome' = Raised("CodexError", MsgTimedOut)
             \/ outcome' = Raised("ProcessLookupError", <<>>)
    /\ pc' = "finally"
    /\ UNCHANGED <<mode, hang, returncode, nread, rc_filter, yielded,
                   remove_failed, read_failed, result, stdout_pipe, stdout_all,
                   stderr_data, file_exists, file_text>>
    /\ UNCHANGED <<filterVars, sseVars, catalogVars>>

\* RC_Finally without the kill and the wait
RC_Finally_NoCleanup ==
    /\ mode = "stream" /\ pc = "finally"
    /\ pc' = "done"
    /\ UNCHANGED <<mode, outcome, hang, returncode, nread, rc_filter, yielded,
                   remove_failed, read_failed, result, procVars, stdout_pipe, stdout_all,
                   stderr_data, file_exists, file_text>>
    /\ UNCHANGED <<filterVars, sseVars, catalogVars>>

\* `finally: if proc.returncode is None: proc.kill(); await proc.wait()`
RC_Finally ==
    /\ mode = "stream" /\ pc = "finally"
    /\ IF returncode = NoCode
       THEN KillChild /\ pc' = "finally_wait"
       ELSE UNCHANGED procVars /\ pc' = "done"
    /\ UNCHANGED <<mode, outcome, hang, returncode, nread, rc_filter, yielded,
                   remove_failed, read_failed, result, stdout_pipe, stdout_all,
                   stderr_data, file_exists, file_text>>
    /\ UNCHANGED <<filterVars, sseVars, catalogVars>>

\* the `await proc.wait()` of the finally clause returns
RC_FinallyWait ==
    /\ mode = "stream" /\ pc = "finally_wait"
    /\ returncode # NoCode
    /\ pc' = "done"
    /\ UNCHANGED <<mode, outcome, hang, returncode, nread, rc_filter, yielded,
                   remove_failed, read_failed, result, procVars, stdout_pipe, stdout_all,
                   stderr_data, file_exists, file_text>>
    /\ UNCHANGED <<filterVars, sseVars, catalogVars>>

-----------------------------------------------------------------------------
(* app/codex.py run_codex_last_message: the capture-to-file adapter *)

\* tempfile.NamedTemporaryFile(..., delete=False) in the working directory
LM_MkTemp ==
    /\ mode = "last" /\ pc = "start"
    /\ file_exists' = TRUE /\ file_text' = <<>>
    /\ pc' = "launch"
    /\ UNCHANGED <<mode, outcome, hang, returncode, nread, rc_filter, yielded,
                   remove_failed, read_failed, result, procVars, stdout_pipe, stdout_all,
                   stderr_data>>
    /\ UNCHANGED <<filterVars, sseVars, catalogVars>>

\* create_subprocess_exec inside the try block, whose only except clause is
\* asyncio.TimeoutError: a launch exception leaves as it is
LM_Launch ==
    /\ mode = "last" /\ pc = "launch"
    /\ \/ /\ child' = "running" /\ stdout_open' = TRUE
          /\ pc' = "communicate"
          /\ UNCHANGED outcome
       \/ /\ \E e \in LaunchErrors :
               outcome' = [kind |-> e, msg |-> <<>>, launch |-> TRUE]
          /\ pc' = "finally"
          /\ UNCHANGED <<child, stdout_open>>
    /\ UNCHANGED <<mode, hang, exitcode, returncode, stdout_pipe, stdout_all,
                   stderr_data, nread, rc_filter, yielded, file_exists, file_text,
                   remove_failed, read_failed, result>>
    /\ UNCHANGED <<filterVars, sseVars, catalogVars>>

\* the text returned for a zero exit status: the captured file, else stdout
\* the captured file as the only source of the text
LastMessageText_FileOnly(readable) ==
    LET text == IF file_exists /\ readable THEN DecodeIgnore(file_text) ELSE <<>>
        sanitized == _sanitize_codex_text(text)
    IN  IF sanitized # <<>> THEN sanitized ELSE StrStrip(text)

LastMessageText(readable) ==
    LET captured == IF file_exists /\ readable THEN DecodeIgnore(file_text) ELSE <<>>
        text == IF captured = <<>> THEN DecodeIgnore(Concat(stdout_all)) ELSE captured
        sanitized == _sanitize_codex_text(text)
    IN  IF sanitized # <<>> THEN sanitized ELSE StrStrip(text)

\* communicate() returned within the timeout: the rest of the try block
LM_CommunicateDone ==
    /\ mode = "last" /\ pc = "communicate"
    /\ returncode # NoCode /\ ~stdout_open
    /\ stdout_pipe' = <<>>
    /\ IF returncode # 0
       THEN /\ outcome' = StderrFailure(stderr_data)
            /\ UNCHANGED <<result, read_failed>>
       ELSE /\ outcome' = Returned
            /\ \E readable \in BOOLEAN :
                  /\ read_failed' = ~(file_exists /\ readable)
                  /\ result' = LastMessageText(readable)
    /\ pc' = "finally"
    /\ UNCHANGED <<mode, hang, returncode, nread, rc_filter, yielded,
                   remove_failed, procVars, stdout_all, stderr_data,
                   file_exists, file_text>>
    /\ UNCHANGED <<filterVars, sseVars, catalogVars>>

\* `except asyncio.TimeoutError: raise CodexError("codex execution timed out")`
LM_Timeout ==
    /\ mode = "last" /\ pc = "communicate"
    /\ returncode = NoCode
    /\ outcome' = Raised("CodexError", MsgTimedOut)
    /\ pc' = "finally"
    /\ UNCHANGED <<mode, hang, returncode, nread, rc_filter, yielded,
                   remove_failed, read_failed, result, procVars, stdout_pipe, stdout_all,
                   stderr_data, file_exists, file_text>>
    /\ UNCHANGED <<filterVars, sseVars, catalogVars>>

\* the task is cancelled while it awaits communicate()
LM_Cancel ==
    /\ mode = "last" /\ pc = "communicate"
    /\ outcome' = Raised("CancelledError", <<>>)
    /\ pc' = "finally"
    /\ UNCHANGED <<mode, hang, returncode, nread, rc_filter, yielded,
                   remove_failed, read_failed, result, procVars, stdout_pipe, stdout_all,
                   stderr_data, file_exists, file_text>>
    /\ UNCHANGED <<filterVars, sseVars, catalogVars>>

\* `finally: try: os.remove(out_path) except Exception: pass`
LM_Finally ==
    /\ mode = "last" /\ pc = "finally"
    /\ \/ /\ file_exists
          /\ file_exists' = FALSE /\ file_text' = <<>>
          /\ UNCHANGED remove_failed
       \/ /\ remove_failed' = TRUE
          /\ UNCHANGED <<file_exists, file_text>>
    /\ pc' = "done"
    /\ UNCHANGED <<mode, outcome, hang, returncode, nread, rc_filter, yielded,
                   read_failed, result, procVars, stdout_pipe, stdout_all, stderr_data>>
    /\ UNCHANGED <<filterVars, sseVars, catalogVars>>

-----------------------------------------------------------------------------
(* app/codex.py: parsing of model listings *)

\* None where the code has Optional[str]
NoneStr == <<"None">>

\* str.endswith(suffix)
EndsWith(s, p) == Len(s) >= Len(p) /\ SubSeq(s, Len(s) - Len(p) + 1, Len(s)) = p

\* str.split(): the whitespace-separated tokens
RECURSIVE TokenEnd(_, _)
TokenEnd(s, i) ==
    IF i <= Len(s) /\ s[i] \notin Whitespace THEN TokenEnd(s, i + 1) ELSE i
RECURSIVE StrSplit(_)
StrSplit(s) ==
    LET i == LStripIdx(s, Whitespace, 1)
    IN  IF i > Len(s) THEN <<>>
        ELSE LET j == TokenEnd(s, i)
             IN  <<SubSeq(s, i, j - 1)>> \o StrSplit(SubSeq(s, j, Len(s)))

S_codex == <<"c","o","d","e","x">>
S_dash_codex == <<"-","c","o","d","e","x">>
S_dash == <<"-">>

\* the characters the variant normalisation keeps: [0-9a-zA-Z._-]
VariantChars == Letters \cup Digits \cup {".", "_", "-"}

\* re.sub(r"-+", "-", s)
RECURSIVE CollapseDashes(_)
CollapseDashes(s) ==
    IF Len(s) < 2 THEN s
    ELSE IF s[1] = "-" /\ s[2] = "-" THEN CollapseDashes(Tail(s))
    ELSE <<s[1]>> \o CollapseDashes(Tail(s))

\* normalized_variant of _compose_codex_variant_name
NormalizeVariant(variant) ==
    LET lowered == StrLower(StrStrip(variant))
        dashed == [i \in 1..Len(lowered) |->
                     IF lowered[i] \in VariantChars THEN lowered[i] ELSE "-"]
        collapsed == CollapseDashes(dashed)
        r == StrRStrip(collapsed, {"-"})
    IN  SubSeq(r, LStripIdx(r, {"-"}, 1), Len(r))

\* _compose_codex_variant_name without the test for "codex"
_compose_any_variant_name(base, variant) ==
    IF variant = <<>> THEN NoneStr
    ELSE LET normalized_variant == NormalizeVariant(variant)
             base_name == IF base = NoneStr THEN <<>> ELSE StrStrip(base)
         IN  IF normalized_variant = <<>> THEN NoneStr
             ELSE IF base_name # <<>>
             THEN IF EndsWith(StrLower(base_name), S_dash \o normalized_variant)
                  THEN NoneStr
                  ELSE base_name \o S_dash \o normalized_variant
             ELSE normalized_variant

\* _compose_codex_variant_name(base, variant)
_compose_codex_variant_name(base, variant) ==
    IF variant = <<>> THEN NoneStr
    ELSE LET normalized_variant == NormalizeVariant(variant)
             base_name == IF base = NoneStr THEN <<>> ELSE StrStrip(base)
         IN  IF normalized_variant = <<>> \/ ~Contains(normalized_variant, S_codex)
             THEN NoneStr
             ELSE IF base_name # <<>>
             THEN IF EndsWith(StrLower(base_name), S_dash \o normalized_variant)
                  THEN NoneStr
                  ELSE base_name \o S_dash \o normalized_variant
             ELSE normalized_variant

\* JSON / TOML values as json.loads and tomllib.load return them
JStr(s) == [t |-> "str", s |-> s]
JList(items) == [t |-> "list", items |-> items]
JDict(d) == [t |-> "dict", d |-> d]
JOther == [t |-> "other"]
NotJson == [t |-> "notjson"]

\* dict.get(key)
Get(d, key) == IF key \in DOMAIN d THEN d[key] ELSE JOther

\* _iter_variant_strings(value), as the list of what it yields
RECURSIVE _iter_variant_strings(_)
RECURSIVE IterVariantEntries(_)
IterVariantEntries(entries) ==
    IF entries = <<>> THEN <<>>
    ELSE _iter_variant_strings(Head(entries)) \o IterVariantEntries(Tail(entries))
_iter_variant_strings(value) ==
    IF value.t = "str" THEN <<value.s>>
    ELSE IF value.t = "list" THEN IterVariantEntries(value.items)
    ELSE IF value.t = "dict"
    THEN LET one(key) == LET maybe == Get(value.d, key)
                         IN  IF maybe.t = "str" THEN <<maybe.s>> ELSE <<>>
         IN  one("id") \o one("name") \o one("variant") \o one("deployment")
    ELSE <<>>

\* _collect_codex_aliases(base, raw_value)
RECURSIVE AliasesOf(_, _)
AliasesOf(base, variants) ==
    IF variants = <<>> THEN <<>>
    ELSE LET alias == _compose_codex_variant_name(base, Head(variants))
         IN  (IF alias # NoneStr THEN <<alias>> ELSE <<>>)
             \o AliasesOf(base, Tail(variants))
_collect_codex_aliases(base, raw_value) ==
    AliasesOf(base, _iter_variant_strings(raw_value))

\* _first_non_empty_string(data, keys)
RECURSIVE _first_non_empty_string(_, _)
_first_non_empty_string(data, keys) ==
    IF keys = <<>> THEN NoneStr
    ELSE LET value == Get(data, Head(keys))
         IN  IF value.t = "str" /\ StrStrip(value.s) # <<>>
             THEN StrStrip(value.s)
             ELSE _first_non_empty_string(data, Tail(keys))

\* _extract_model_identifiers_from_dict(data)
_extract_model_identifiers_from_dict(data) ==
    LET base == _first_non_empty_string(data, <<"id", "model", "name", "slug">>)
    IN  (IF base # NoneStr THEN <<base>> ELSE <<>>)
        \o _collect_codex_aliases(base, Get(data, "deployment"))
        \o _collect_codex_aliases(base, Get(data, "variant"))
        \o _collect_codex_aliases(base, Get(data, "deployments"))
        \o _collect_codex_aliases(base, Get(data, "variants"))

\* _extract_model_identifiers(item)
_extract_model_identifiers(item) ==
    IF item.t = "str"
    THEN IF StrStrip(item.s) # <<>> THEN <<StrStrip(item.s)>> ELSE <<>>
    ELSE IF item.t = "dict" THEN _extract_model_identifiers_from_dict(item.d)
    ELSE <<>>

\* a deduplication that keeps the last occurrence of a value
RECURSIVE _dedupe_keeping_last(_)
_dedupe_keeping_last(values) ==
    IF values = <<>> THEN <<>>
    ELSE IF Head(values) \in Range(Tail(values))
    THEN _dedupe_keeping_last(Tail(values))
    ELSE <<Head(values)>> \o _dedupe_keeping_last(Tail(values))

\* _dedupe_preserving_order(values)
RECURSIVE DedupeFrom(_, _)
DedupeFrom(values, seen) ==
    IF values = <<>> THEN <<>>
    ELSE IF Head(values) \in seen THEN DedupeFrom(Tail(values), seen)
    ELSE <<Head(values)>> \o DedupeFrom(Tail(values), seen \cup {Head(values)})
_dedupe_preserving_order(values) == DedupeFrom(values, {})

\* the list `items` of _parse_model_listing: [some, items]
ListingItems(data) ==
    IF data.t = "dict"
    THEN LET isList(key) == Get(data.d, key).t = "list"
         IN  IF isList("data") THEN [some |-> TRUE, items |-> data.d["data"].items]
             ELSE IF isList("models") THEN [some |-> TRUE, items |-> data.d["models"].items]
             ELSE IF isList("items") THEN [some |-> TRUE, items |-> data.d["items"].items]
             ELSE IF Get(data.d, "id").t = "str" THEN [some |-> TRUE, items |-> <<data>>]
             ELSE [some |-> FALSE, items |-> <<>>]
    ELSE IF data.t = "list" THEN [some |-> TRUE, items |-> data.items]
    ELSE [some |-> FALSE, items |-> <<>>]

\* the list `parsed` of _parse_model_listing
RECURSIVE ParsedItems(_)
ParsedItems(items) ==
    IF items = <<>> THEN <<>>
    ELSE _extract_model_identifiers(Head(items)) \o ParsedItems(Tail(items))

S_available_models == <<"a","v","a","i","l","a","b","l","e"," ","m","o","d","e","l","s">>
HeaderTokens == {<<"m","o","d","e","l">>, <<"n","a","m","e">>, <<"i","d">>}

\* what one line of a plaintext listing adds to `parsed_lines`
ParsedLine(line) ==
    LET stripped == StrStrip(line)
        parts == StrSplit(stripped)
    IN  IF stripped = <<>> THEN <<>>
        ELSE IF StartsWith(StrLower(stripped), S_available_models) THEN <<>>
        ELSE IF parts = <<>> THEN <<>>
        ELSE IF StrLower(parts[1]) \in HeaderTokens THEN <<>>
        ELSE <<parts[1]>> \o AliasesOf(parts[1], Tail(parts))

\* the list `parsed_lines` of _parse_model_listing
RECURSIVE ParsedLines(_)
ParsedLines(lines) ==
    IF lines = <<>> THEN <<>>
    ELSE ParsedLine(Head(lines)) \o ParsedLines(Tail(lines))

\* _parse_model_listing(raw); doc.json is json.loads(raw), NotJson when it raises
_parse_model_listing(doc) ==
    IF doc.raw = <<>> THEN <<>>
    ELSE LET found == ListingItems(doc.json)
         IN  IF found.some
             THEN _dedupe_preserving_order(ParsedItems(found.items))
             ELSE _dedupe_preserving_order(ParsedLines(SplitLines(doc.raw)))

\* the list `models` of _models_from_config
RECURSIVE ProfileModels(_)
ProfileModels(profiles) ==
    IF profiles = <<>> THEN <<>>
    ELSE LET profile == Head(profiles)
             value == IF profile.t = "dict" THEN Get(profile.d, "model") ELSE JOther
         IN  (IF value.t = "str" /\ value.s # <<>> THEN <<value.s>> ELSE <<>>)
             \o ProfileModels(Tail(profiles))
ConfigModels(data) ==
    LET top == Get(data, "model")
        profiles == Get(data, "profiles")
    IN  (IF top.t = "str" /\ top.s # <<>> THEN <<top.s>> ELSE <<>>)
        \o (IF profiles.t = "table" THEN ProfileModels(profiles.vals) ELSE <<>>)

\* the bases appended for the models that end with "-codex"
RECURSIVE CodexBases(_)
CodexBases(models) ==
    IF models = <<>> THEN <<>>
    ELSE LET model == Head(models)
             base == SubSeq(model, 1, Len(model) - 6)
         IN  (IF EndsWith(model, S_dash_codex) /\ base # <<>> THEN <<base>> ELSE <<>>)
             \o CodexBases(Tail(models))

\* the list `augmented` of _models_from_config
ConfigAugmented(data) == ConfigModels(data) \o CodexBases(ConfigModels(data))

\* _models_from_config() when config.toml exists and parses to `data`
_models_from_config(data) == _dedupe_preserving_order(ConfigAugmented(data))

-----------------------------------------------------------------------------
(* app/model_registry.py *)

DEFAULT_MODEL == <<"c","o","d","e","x","-","c","l","i">>
REASONING_EFFORT_SUFFIXES == <<<<"m","i","n","i","m","a","l">>, <<"l","o","w">>, <<"m","e","d","i","u","m">>, <<"h","i","g","h">>>>

\* _augment_models(models)
RECURSIVE AugmentFrom(_, _)
AugmentFrom(models, seen) ==
    IF models = <<>> THEN <<>>
    ELSE LET model == Head(models)
             own == IF model # <<>> /\ model \notin seen THEN <<model>> ELSE <<>>
             seen1 == seen \cup Range(own)
             base == SubSeq(model, 1, Len(model) - 6)
             stripped == IF EndsWith(model, S_dash_codex) /\ base # <<>> /\ base \notin seen1
                         THEN <<base>> ELSE <<>>
         IN  own \o stripped \o AugmentFrom(Tail(models), seen1 \cup Range(stripped))
_augment_models(models) == AugmentFrom(models, {})

-----------------------------------------------------------------------------
(* Idle values of the subsystems a specification does not exercise *)

SanIdle ==
    /\ san_pc = "idle"
    /\ san_pieces = 0
    /\ san_in = <<>>
    /\ san_once = <<>>
    /\ san_twice = <<>>

ListIdle ==
    /\ lst_kind = "idle"
    /\ lst_pc = "idle"
    /\ lst_n = 0
    /\ lst_items = <<>>
    /\ lst_text = <<>>
    /\ lst_top = JOther
    /\ lst_models = <<>>
    /\ lst_catalog = <<>>

\* outcomes of the discovery coroutines
DNone == [kind |-> "none", models |-> <<>>]
DReturn(models) == [kind |-> "return", models |-> models]
DRaise(kind) == [kind |-> kind, models |-> <<>>]

ProbeIdle ==
    /\ pr_pc = "idle"
    /\ pr_child = "none"
    /\ pr_returncode = NoCode
    /\ pr_stdout_open = FALSE
    /\ pr_pipe = <<>>
    /\ pr_discovered = NoneStr
    /\ pr_pending = DNone
    /\ pr_cleanup = <<>>
    /\ pr_out = DNone

ListingIdle ==
    /\ disc_pc = "idle"
    /\ disc_k = 1
    /\ disc_child = "none"
    /\ disc_tried = <<>>
    /\ disc_yields = <<>>
    /\ disc_errors = <<>>
    /\ disc_out = [kind |-> "none", models |-> <<>>, detail |-> <<>>,
                   exhausted |-> FALSE]

\* the module's globals as they are after import
RegIdle ==
    /\ reg_pc = "idle"
    /\ reg_runs = 0
    /\ heap = << <<DEFAULT_MODEL>> >>
    /\ reg_ref = 1
    /\ reg_last_error = FALSE
    /\ reg_out = DNone
    /\ reg_history = << <<DEFAULT_MODEL>> >>

RdNone == [call |-> "none", requested |-> <<>>, kind |-> "none", list |-> <<>>,
           model |-> <<>>, effort |-> NoneStr, before |-> <<>>, after |-> <<>>]

DiscIdle == ProbeIdle /\ ListingIdle /\ RegIdle /\ rd = RdNone

\* the defaults of app/config.py, no command asked for
S_read_only == <<"r","e","a","d","-","o","n","l","y">>
CmdIdle ==
    /\ sandbox_mode = S_read_only
    /\ workspace_network_access = FALSE
    /\ bc_pc = "idle"
    /\ bc_overrides = <<>>
    /\ bc_images = <<>>
    /\ bc_model = NoneStr
    /\ bc_out = [kind |-> "none", cmd |-> <<>>]

NoCall == [t |-> "none"]
NoMessage == [content |-> [t |-> "none"], function_call |-> NoCall]
ChatIdle ==
    /\ ch_pc = "idle"
    /\ ch_stream = FALSE
    /\ ch_functions = FALSE
    /\ ch_function_call = "absent"
    /\ ch_output = [frags |-> <<>>, json |-> NotJson, fence |-> NotJson]
    /\ ch_next = 1
    /\ ch_buffered = <<>>
    /\ ch_events = <<>>
    /\ ch_finish = "unset"
    /\ ch_message = NoMessage
    /\ ch_raised = "none"

ImgIdle ==
    /\ im_endpoint = "chat"
    /\ im_stream = FALSE
    /\ im_urls = 0
    /\ im_paths = <<>>
    /\ im_exists = {}
    /\ im_pc = "idle"
    /\ im_gen = "none"
    /\ im_child = "none"
    /\ im_args = <<>>
    /\ im_seen = "unread"
    /\ im_status = 0
    /\ im_sandbox = "unset"
    /\ im_allow = FALSE

PipeIdle ==
    /\ sp_script = <<>>
    /\ sp_ip = 1
    /\ sp_child = "exited"
    /\ sp_out_open = FALSE
    /\ sp_stdout = 0
    /\ sp_stderr = 0
    /\ sp_pc = "idle"
    /\ sp_processed = 0
    /\ sp_outcome = "none"

MoreIdle == CmdIdle /\ ChatIdle /\ ImgIdle /\ PipeIdle

CatalogIdle == SanIdle /\ ListIdle /\ DiscIdle /\ MoreIdle

-----------------------------------------------------------------------------
(* Specification of one adapter call *)

SseIdle ==
    /\ endpoint = "chat"
    /\ fc_supported = FALSE
    /\ fc_disabled = FALSE
    /\ sse_pc = "idle"
    /\ sse_events = <<>>
    /\ sse_buf = <<>>
    /\ sse_err = FALSE
    /\ finish_reason = "none"

InitRun ==
    /\ mode \in {"stream", "last"}
    /\ hang \in BOOLEAN
    /\ pc = "start"
    /\ outcome = NoOutcome
    /\ child = "none"
    /\ exitcode = NoCode
    /\ returncode = NoCode
    /\ stdout_pipe = <<>>
    /\ stdout_open = FALSE
    /\ stdout_all = <<>>
    /\ stderr_data = <<>>
    /\ nread = 0
    /\ rc_filter = FilterInit
    /\ yielded = <<>>
    /\ file_exists = FALSE
    /\ file_text = <<>>
    /\ remove_failed = FALSE
    /\ read_failed = FALSE
    /\ result = <<>>
    /\ hide_reasoning = FALSE
    /\ FilterIdle
    /\ SseIdle
    /\ CatalogIdle

ChildStep == ChildWrite \/ ChildCloseStdout \/ ChildWriteFile \/ ChildExit

StreamStep ==
    \/ RC_Launch \/ RC_ReadLine \/ RC_ReadEof \/ RC_WaitDone \/ RC_WaitTimeout
    \/ RC_TimeoutHandler \/ RC_Finally \/ RC_FinallyWait

LastStep ==
    \/ LM_MkTemp \/ LM_Launch \/ LM_CommunicateDone \/ LM_Timeout \/ LM_Finally

ConsumerStep == RC_Next \/ RC_Close \/ RC_Cancel \/ LM_Cancel

NextRun == ChildStep \/ LoopReap \/ StreamStep \/ LastStep \/ ConsumerStep

SpecRun == InitRun /\ [][NextRun]_vars

\* The event loop runs every coroutine step that is ready, collects every exit
\* status, fires every armed timer, and the consumer keeps iterating; nothing
\* is assumed of the child.
FairSpecRun ==
    /\ SpecRun
    /\ WF_vars(StreamStep) /\ WF_vars(LastStep) /\ WF_vars(LoopReap)
    /\ WF_vars(RC_Next)

-----------------------------------------------------------------------------
(* app/main.py: event_gen of chat_completions and of responses_endpoint *)

\* what run_codex yields into event_gen: plain text, or a function-call payload
FragKinds == {"text", "json"}

\* extract_function_call_payload("".join(buffered))[0] is not None
ParsesAsFunctionCall(buffered) == buffered = <<"json">>

\* fragments received from run_codex so far
FragmentsSeen ==
    IF endpoint = "chat" /\ fc_supported
    THEN Len(sse_buf)
    ELSE Cardinality({i \in DOMAIN sse_events :
                        sse_events[i] \in {"chunk", "response.output_text.delta"}})

Emit(event) == sse_events' = Append(sse_events, event)

\* responses: the response.created event before the loop
SSE_Created ==
    /\ endpoint = "responses" /\ sse_pc = "start"
    /\ Emit("response.created")
    /\ sse_pc' = "loop"
    /\ UNCHANGED <<endpoint, fc_supported, fc_disabled, sse_buf, sse_err, finish_reason>>
    /\ UNCHANGED <<filterVars, runVars, catalogVars>>

\* one pass of `async for text in run_codex(...)`
SSE_Fragment ==
    /\ sse_pc = "loop"
    /\ FragmentsSeen < MaxFragments
    /\ \E text \in FragKinds :
         IF endpoint = "chat"
         THEN IF fc_supported
              THEN sse_buf' = Append(sse_buf, text) /\ UNCHANGED sse_events
              ELSE Emit("chunk") /\ UNCHANGED sse_buf
         ELSE sse_buf' = Append(sse_buf, text) /\ Emit("response.output_text.delta")
    /\ UNCHANGED <<endpoint, fc_supported, fc_disabled, sse_pc, sse_err, finish_reason>>
    /\ UNCHANGED <<filterVars, runVars, catalogVars>>

\* run_codex is exhausted: the loop ends
SSE_SourceDone ==
    /\ sse_pc = "loop"
    /\ sse_pc' = IF endpoint = "responses" THEN "text_done"
                 ELSE IF fc_supported THEN "fc_tail" ELSE "done_marker"
    /\ UNCHANGED <<endpoint, fc_supported, fc_disabled, sse_events, sse_buf, sse_err,
                   finish_reason>>
    /\ UNCHANGED <<filterVars, runVars, catalogVars>>

\* run_codex raises CodexError into the loop.  chat: event_gen has no handler
\* and the exception leaves the generator; responses: `except CodexError`
SSE_SourceError ==
    /\ sse_pc = "loop"
    /\ sse_err' = TRUE
    /\ sse_pc' = IF endpoint = "responses" THEN "error_evt" ELSE "raised"
    /\ UNCHANGED <<endpoint, fc_supported, fc_disabled, sse_events, sse_buf,
                   finish_reason>>
    /\ UNCHANGED <<filterVars, runVars, catalogVars>>

\* chat, `if function_call_supported:` the function_call delta or the content chunk
SSE_ChatFunctionTail ==
    /\ endpoint = "chat" /\ sse_pc = "fc_tail"
    /\ IF ParsesAsFunctionCall(sse_buf) /\ ~fc_disabled
       THEN Emit("function_call") /\ finish_reason' = "function_call"
       ELSE /\ IF sse_buf # <<>> THEN Emit("chunk") ELSE UNCHANGED sse_events
            /\ finish_reason' = "stop"
    /\ sse_pc' = "final_chunk"
    /\ UNCHANGED <<endpoint, fc_supported, fc_disabled, sse_buf, sse_err>>
    /\ UNCHANGED <<filterVars, runVars, catalogVars>>

\* chat: the chunk carrying finish_reason
SSE_ChatFinalChunk ==
    /\ endpoint = "chat" /\ sse_pc = "final_chunk"
    /\ Emit("final_chunk")
    /\ sse_pc' = "done_marker"
    /\ UNCHANGED <<endpoint, fc_supported, fc_disabled, sse_buf, sse_err, finish_reason>>
    /\ UNCHANGED <<filterVars, runVars, catalogVars>>

\* responses: response.output_text.done
SSE_TextDone ==
    /\ endpoint = "responses" /\ sse_pc = "text_done"
    /\ Emit("response.output_text.done")
    /\ sse_pc' = "completed"
    /\ UNCHANGED <<endpoint, fc_supported, fc_disabled, sse_buf, sse_err, finish_reason>>
    /\ UNCHANGED <<filterVars, runVars, catalogVars>>

\* responses: response.completed
SSE_Completed ==
    /\ endpoint = "responses" /\ sse_pc = "completed"
    /\ Emit("response.completed")
    /\ sse_pc' = "done_marker"
    /\ UNCHANGED <<endpoint, fc_supported, fc_disabled, sse_buf, sse_err, finish_reason>>
    /\ UNCHANGED <<filterVars, runVars, catalogVars>>

\* responses: `except CodexError` yields response.error
SSE_ErrorEvent ==
    /\ endpoint = "responses" /\ sse_pc = "error_evt"
    /\ Emit("response.error")
    /\ sse_pc' = "done_marker"
    /\ UNCHANGED <<endpoint, fc_supported, fc_disabled, sse_buf, sse_err, finish_reason>>
    /\ UNCHANGED <<filterVars, runVars, catalogVars>>

\* `yield b"data: [DONE]\n\n"`
SSE_Done ==
    /\ sse_pc = "done_marker"
    /\ Emit("[DONE]")
    /\ sse_pc' = "end"
    /\ UNCHANGED <<endpoint, fc_supported, fc_disabled, sse_buf, sse_err, finish_reason>>
    /\ UNCHANGED <<filterVars, runVars, catalogVars>>

InitSSE ==
    /\ endpoint \in {"chat", "responses"}
    /\ fc_supported \in (IF endpoint = "chat" THEN BOOLEAN ELSE {FALSE})
    /\ fc_disabled \in (IF endpoint = "chat" THEN BOOLEAN ELSE {FALSE})
    /\ sse_pc = IF endpoint = "chat" THEN "loop" ELSE "start"
    /\ sse_events = <<>>
    /\ sse_buf = <<>>
    /\ sse_err = FALSE
    /\ finish_reason = "none"
    /\ hide_reasoning = FALSE
    /\ FilterIdle
    /\ RunIdle
    /\ CatalogIdle

NextSSE ==
    \/ SSE_Created \/ SSE_Fragment \/ SSE_SourceDone \/ SSE_SourceError
    \/ SSE_ChatFunctionTail \/ SSE_ChatFinalChunk \/ SSE_TextDone \/ SSE_Completed
    \/ SSE_ErrorEvent \/ SSE_Done

SpecSSE == InitSSE /\ [][NextSSE]_vars

-----------------------------------------------------------------------------
(* Specification of the line filter *)

InitFilter ==
    /\ hide_reasoning \in BOOLEAN
    /\ f_filter = FilterInit
    /\ f_hist = <<>>
    /\ f_out = <<>>
    /\ f_script \in 0..Len(Scripts)
    /\ RunIdle
    /\ SseIdle
    /\ CatalogIdle

NextFilter == FilterFeed \/ FilterReplay

SpecFilter == InitFilter /\ [][NextFilter]_vars

-----------------------------------------------------------------------------
(* Specification of the whole-text filter applied twice *)

MaxSanPieces == 3       \* pieces a text is built from

\* pieces of text: lines of the filter's pool and pieces with other endings
S_ws == <<" ","\n">>
S_indent == <<" ","o","k"," ">>
S_ff == <<"a","\f","b","\n">>
SanPool ==
    {L_final, L_blank, L_tokens, L_user_instructions, L_assistant, L_ts_hello,
     S_ws, S_indent, S_ff}

InitSanitize ==
    /\ san_pc = "build"
    /\ san_pieces = 0
    /\ san_in = <<>>
    /\ san_once = <<>>
    /\ san_twice = <<>>
    /\ hide_reasoning = FALSE
    /\ FilterIdle
    /\ RunIdle
    /\ SseIdle
    /\ ListIdle
    /\ DiscIdle
    /\ MoreIdle

San_Append ==
    /\ san_pc = "build"
    /\ san_pieces < MaxSanPieces
    /\ \E piece \in SanPool : san_in' = san_in \o piece
    /\ san_pieces' = san_pieces + 1
    /\ UNCHANGED <<san_pc, san_once, san_twice>>
    /\ UNCHANGED <<filterVars, runVars, sseVars, listVars, discVars, moreVars>>

San_Apply ==
    /\ san_pc = "build"
    /\ san_once' = _sanitize_codex_text(san_in)
    /\ san_pc' = "once"
    /\ UNCHANGED <<san_pieces, san_in, san_twice>>
    /\ UNCHANGED <<filterVars, runVars, sseVars, listVars, discVars, moreVars>>

San_Reapply ==
    /\ san_pc = "once"
    /\ san_twice' = _sanitize_codex_text(san_once)
    /\ san_pc' = "twice"
    /\ UNCHANGED <<san_pieces, san_in, san_once>>
    /\ UNCHANGED <<filterVars, runVars, sseVars, listVars, discVars, moreVars>>

NextSanitize == San_Append \/ San_Apply \/ San_Reapply

SpecSanitize == InitSanitize /\ [][NextSanitize]_vars

-----------------------------------------------------------------------------
(* Specification of the listing parsers and the alias synthesis *)

MaxEntries == 3         \* entries of a listing, lines of a plaintext listing

\* the entries of the JSON listing of tests/test_codex_model_listing.py
E_gpt5 == JDict([id |-> JStr(<<"g","p","t","-","5">>), deployment |-> JStr(<<"c","o","d","e","x">>)])
E_mini == JDict([id |-> JStr(<<"g","p","t","-","5","-","m","i","n","i">>),
                 deployments |-> JList(<<JStr(<<"c","o","d","e","x">>), JStr(<<"d","e","f","a","u","l","t">>)>>)])
E_pro == JDict([id |-> JStr(<<"g","p","t","-","5","-","p","r","o">>),
                variants |-> JList(<<JDict([id |-> JStr(<<"c","o","d","e","x","-","l","a","t","e","s","t">>)])>>)])
E_o4 == JDict([id |-> JStr(<<"o","4","-","m","i","n","i">>), deployment |-> JStr(<<"d","e","f","a","u","l","t">>)])
\* and entries of other shapes
E_str == JStr(<<" ","g","p","t","-","5"," ">>)
E_preview == JDict([model |-> JStr(<<"g","p","t","-","5","-","c","o","d","e","x">>), variant |-> JStr(<<"C","o","d","e","x"," ","(","p","r","e","v","i","e","w",")">>)])
E_nobase == JDict([deployment |-> JStr(<<"c","o","d","e","x">>)])
E_codexbase == JDict([id |-> JStr(<<"g","p","t","-","5","-","C","o","d","e","x">>), deployment |-> JStr(<<" ","C","O","D","E","X"," ">>)])
EntryPool ==
    {E_gpt5, E_mini, E_pro, E_o4, E_str, E_preview, E_nobase, E_codexbase, JOther}

\* the lines of the plaintext listing of the same tests, and other lines
T_blank == <<"\n">>
T_available == <<" "," "," "," ","A","v","a","i","l","a","b","l","e"," ","m","o","d","e","l","s",":","\n">>
T_gpt5 == <<" "," "," "," "," "," ","g","p","t","-","5"," ","c","o","d","e","x"," ","d","e","f","a","u","l","t","\n">>
T_mini == <<" "," "," "," "," "," ","g","p","t","-","5","-","m","i","n","i"," ","c","o","d","e","x","\n">>
T_o4 == <<" "," "," "," "," "," ","o","4","-","m","i","n","i"," ","d","e","f","a","u","l","t","\n">>
T_header == <<"M","O","D","E","L"," "," ","D","E","P","L","O","Y","M","E","N","T","\n">>
T_codexbase == <<"g","p","t","-","5","-","c","o","d","e","x"," ","C","o","d","e","x">>
LinePool == {T_blank, T_available, T_gpt5, T_mini, T_o4, T_header, T_codexbase}

\* values of `model` in config.toml, top level and per profile
TopPool == {JOther, JStr(<<"g","p","t","-","5","-","c","o","d","e","x">>), JStr(<<>>)}
ProfilePool ==
    {JDict([model |-> JStr(<<"o","3">>)]), JDict([model |-> JStr(<<"g","p","t","-","5","-","c","o","d","e","x">>)]),
     JDict([model |-> JStr(<<"-","c","o","d","e","x">>)]), JDict([model |-> JStr(<<"g","p","t","-","5">>)]),
     JDict([approval |-> JStr(<<"n","e","v","e","r">>)]), JStr(<<"o","3">>)}

\* the raw text of a JSON listing; the parser only tests it for emptiness
\* once json.loads has returned a list or an envelope
JsonText == <<"{","}">>

\* a JSON answer that is no listing: json.loads succeeds, no items are found
\* and the raw text is parsed as plaintext
ErrorText == <<"{","\"","e","r","r","o","r","\"",":"," ","\"","n","o"," ","c","o","d","e","x","\"","}">>
ErrorDoc == [raw |-> ErrorText, json |-> JDict([error |-> JStr(<<"n","o"," ","c","o","d","e","x">>)])]

JsonKinds == {"data", "models", "bare", "single"}
ListingKinds == JsonKinds \cup {"text", "error", "config"}

\* the listing the parser is handed
ListingDoc ==
    CASE lst_kind = "data" ->
           [raw |-> JsonText, json |-> JDict([data |-> JList(lst_items)])]
      [] lst_kind = "models" ->
           [raw |-> JsonText,
            json |-> JDict([data |-> JStr(<<"v","1">>), models |-> JList(lst_items)])]
      [] lst_kind = "bare" ->
           [raw |-> JsonText, json |-> JList(lst_items)]
      [] lst_kind = "single" ->
           [raw |-> JsonText, json |-> lst_items[1]]
      [] lst_kind = "text" ->
           [raw |-> lst_text, json |-> NotJson]
      [] OTHER -> ErrorDoc

\* config.toml as tomllib.load returns it
ConfigData ==
    [model |-> lst_top, profiles |-> [t |-> "table", vals |-> lst_items]]

Lst_AddEntry ==
    /\ lst_pc = "build"
    /\ lst_kind \in JsonKinds
    /\ lst_n < (IF lst_kind = "single" THEN 1 ELSE MaxEntries)
    /\ \E e \in (IF lst_kind = "single"
                 THEN {E_gpt5, E_o4, E_codexbase}
                 ELSE EntryPool) :
         lst_items' = Append(lst_items, e)
    /\ lst_n' = lst_n + 1
    /\ UNCHANGED <<lst_kind, lst_pc, lst_text, lst_top, lst_models, lst_catalog>>
    /\ UNCHANGED <<filterVars, runVars, sseVars, sanVars, discVars, moreVars>>

Lst_AddLine ==
    /\ lst_pc = "build"
    /\ lst_kind = "text"
    /\ lst_n < MaxEntries
    /\ \E line \in LinePool : lst_text' = lst_text \o line
    /\ lst_n' = lst_n + 1
    /\ UNCHANGED <<lst_kind, lst_pc, lst_items, lst_top, lst_models, lst_catalog>>
    /\ UNCHANGED <<filterVars, runVars, sseVars, sanVars, discVars, moreVars>>

Lst_AddProfile ==
    /\ lst_pc = "build"
    /\ lst_kind = "config"
    /\ lst_n < MaxEntries
    /\ \E profile \in ProfilePool : lst_items' = Append(lst_items, profile)
    /\ lst_n' = lst_n + 1
    /\ UNCHANGED <<lst_kind, lst_pc, lst_text, lst_top, lst_models, lst_catalog>>
    /\ UNCHANGED <<filterVars, runVars, sseVars, sanVars, discVars, moreVars>>

\* _parse_model_listing or _models_from_config on the input
Lst_Parse ==
    /\ lst_pc = "build"
    /\ lst_kind = "single" => lst_items # <<>>
    /\ lst_models' = IF lst_kind = "config"
                     THEN _models_from_config(ConfigData)
                     ELSE _parse_model_listing(ListingDoc)
    /\ lst_pc' = "parsed"
    /\ UNCHANGED <<lst_kind, lst_n, lst_items, lst_text, lst_top, lst_catalog>>
    /\ UNCHANGED <<filterVars, runVars, sseVars, sanVars, discVars, moreVars>>

\* initialize_model_registry: the catalog made of the discovered models, or
\* of DEFAULT_MODEL when there are none
Lst_Augment ==
    /\ lst_pc = "parsed"
    /\ lst_catalog' = IF lst_models # <<>>
                      THEN _augment_models(lst_models)
                      ELSE _augment_models(<<DEFAULT_MODEL>>)
    /\ lst_pc' = "augmented"
    /\ UNCHANGED <<lst_kind, lst_n, lst_items, lst_text, lst_top, lst_models>>
    /\ UNCHANGED <<filterVars, runVars, sseVars, sanVars, discVars, moreVars>>

InitListing ==
    /\ lst_kind \in ListingKinds
    /\ lst_pc = "build"
    /\ lst_n = 0
    /\ lst_items = <<>>
    /\ lst_text = <<>>
    /\ lst_top \in (IF lst_kind = "config" THEN TopPool ELSE {JOther})
    /\ lst_models = <<>>
    /\ lst_catalog = <<>>
    /\ hide_reasoning = FALSE
    /\ FilterIdle
    /\ RunIdle
    /\ SseIdle
    /\ SanIdle
    /\ DiscIdle
    /\ MoreIdle

NextListing ==
    Lst_AddEntry \/ Lst_AddLine \/ Lst_AddProfile \/ Lst_Parse \/ Lst_Augment

SpecListing == InitListing /\ [][NextListing]_vars

-----------------------------------------------------------------------------
(* app/codex.py _probe_models_via_proto: the `codex proto` probe *)

MaxProbePipe == 2       \* lines the probe child has written and the probe not read

nonDiscVars == <<filterVars, runVars, sseVars, sanVars, listVars, moreVars>>

S_session_configured == <<"s","e","s","s","i","o","n","_","c","o","n","f","i","g","u","r","e","d">>
S_task_started == <<"t","a","s","k","_","s","t","a","r","t","e","d">>
ProtoModel == <<"g","p","t","-","5","-","c","o","d","e","x">>

\* stdout lines of the probe child: [decodes, json]
PL_junk == [decodes |-> TRUE, json |-> NotJson]
PL_event ==
    [decodes |-> TRUE, json |-> JDict([msg |-> JDict([type |-> JStr(S_task_started)])])]
PL_list == [decodes |-> TRUE, json |-> JList(<<>>)]
PL_configured ==
    [decodes |-> TRUE,
     json |-> JDict([msg |-> JDict([type |-> JStr(S_session_configured),
                                    model |-> JStr(ProtoModel)])])]
PL_nomodel ==
    [decodes |-> TRUE,
     json |-> JDict([msg |-> JDict([type |-> JStr(S_session_configured)])])]
PL_undecodable == [decodes |-> FALSE, json |-> NotJson]
ProbeLines == {PL_junk, PL_event, PL_list, PL_configured, PL_nomodel, PL_undecodable}

\* `msg` of a payload, and whether it is the session_configured event
PayloadMsg(payload) == IF payload.t = "dict" THEN Get(payload.d, "msg") ELSE JOther
IsSessionConfigured(msg) ==
    msg.t = "dict" /\ Get(msg.d, "type") = JStr(S_session_configured)

\* the probe child writes a line, closes stdout, exits; the loop reaps it
PrChild_Write ==
    /\ pr_child = "running" /\ pr_stdout_open
    /\ pr_pc = "read"              \* what it writes later is never read
    /\ Len(pr_pipe) < MaxProbePipe
    /\ \E line \in ProbeLines : pr_pipe' = Append(pr_pipe, line)
    /\ UNCHANGED <<pr_pc, pr_child, pr_returncode, pr_stdout_open,
                   pr_discovered, pr_pending, pr_cleanup, pr_out>>
    /\ UNCHANGED <<listingVars, regVars, rd, nonDiscVars>>

PrChild_CloseStdout ==
    /\ pr_child = "running" /\ pr_stdout_open
    /\ pr_stdout_open' = FALSE
    /\ UNCHANGED <<pr_pc, pr_child, pr_returncode, pr_pipe,
                   pr_discovered, pr_pending, pr_cleanup, pr_out>>
    /\ UNCHANGED <<listingVars, regVars, rd, nonDiscVars>>

PrChild_Exit ==
    /\ pr_child = "running"
    /\ pr_child' = "exited"
    /\ pr_stdout_open' = FALSE
    /\ UNCHANGED <<pr_pc, pr_returncode, pr_pipe,
                   pr_discovered, pr_pending, pr_cleanup, pr_out>>
    /\ UNCHANGED <<listingVars, regVars, rd, nonDiscVars>>

PrLoopReap ==
    /\ pr_child = "exited"
    /\ pr_child' = "reaped"
    /\ pr_returncode' = 0
    /\ pr_cleanup' = IF pr_pc \in {"shutdown_wait", "kill_wait"}
                     THEN Append(pr_cleanup, "reaped") ELSE pr_cleanup
    /\ UNCHANGED <<pr_pc, pr_stdout_open, pr_pipe,
                   pr_discovered, pr_pending, pr_out>>
    /\ UNCHANGED <<listingVars, regVars, rd, nonDiscVars>>

\* _build_codex_env and create_subprocess_exec with its except clause
Pr_Launch ==
    /\ pr_pc = "launch"
    /\ \/ /\ pr_child' = "running" /\ pr_stdout_open' = TRUE
          /\ pr_pc' = "read"
          /\ UNCHANGED pr_out
       \/ /\ \E e \in LaunchErrors :
               pr_out' = DRaise(IF e = "FileNotFoundError" THEN "CodexError" ELSE e)
          /\ pr_pc' = "done"
          /\ UNCHANGED <<pr_child, pr_stdout_open>>
    /\ UNCHANGED <<pr_returncode, pr_pipe, pr_discovered, pr_pending, pr_cleanup>>
    /\ UNCHANGED <<listingVars, regVars, rd, nonDiscVars>>

\* readline returned a line: decode, json.loads and the test of the payload
Pr_ReadLine ==
    /\ pr_pc = "read"
    /\ pr_pipe # <<>>
    /\ pr_pipe' = Tail(pr_pipe)
    /\ LET line == Head(pr_pipe)
           msg == PayloadMsg(line.json)
           model == IF msg.t = "dict" THEN Get(msg.d, "model") ELSE JOther
       IN  IF ~line.decodes
           THEN /\ pr_pending' = DRaise("UnicodeDecodeError")
                /\ pr_pc' = "finally"
                /\ UNCHANGED pr_discovered
           ELSE IF line.json # NotJson /\ IsSessionConfigured(msg)
           THEN /\ pr_discovered' = IF model.t = "str" /\ model.s # <<>>
                                    THEN model.s ELSE pr_discovered
                /\ pr_pc' = "finally"
                /\ UNCHANGED pr_pending
           ELSE UNCHANGED <<pr_pc, pr_discovered, pr_pending>>
    /\ UNCHANGED <<pr_child, pr_returncode, pr_stdout_open, pr_cleanup, pr_out>>
    /\ UNCHANGED <<listingVars, regVars, rd, nonDiscVars>>

\* readline returned b"": end of stream
Pr_ReadEof ==
    /\ pr_pc = "read"
    /\ pr_pipe = <<>> /\ ~pr_stdout_open
    /\ pr_pc' = "finally"
    /\ UNCHANGED <<pr_child, pr_returncode, pr_stdout_open, pr_pipe,
                   pr_discovered, pr_pending, pr_cleanup, pr_out>>
    /\ UNCHANGED <<listingVars, regVars, rd, nonDiscVars>>

\* no line within settings.timeout_seconds
Pr_ReadTimeout ==
    /\ pr_pc = "read"
    /\ pr_pipe = <<>> /\ pr_stdout_open
    /\ pr_pending' = DRaise("CodexError")
    /\ pr_pc' = "finally"
    /\ UNCHANGED <<pr_child, pr_returncode, pr_stdout_open, pr_pipe,
                   pr_discovered, pr_cleanup, pr_out>>
    /\ UNCHANGED <<listingVars, regVars, rd, nonDiscVars>>

\* what the probe ends with once the finally clause is through
ProbeResult ==
    IF pr_pending # DNone THEN pr_pending
    ELSE IF pr_discovered # NoneStr THEN DReturn(<<pr_discovered>>)
    ELSE DReturn(<<>>)

\* finally: write the shutdown payload and drain (errors swallowed), close stdin
Pr_Shutdown ==
    /\ pr_pc = "finally"
    /\ pr_cleanup' = pr_cleanup \o <<"shutdown", "close">>
    /\ pr_pc' = "shutdown_wait"
    /\ UNCHANGED <<pr_child, pr_returncode, pr_stdout_open, pr_pipe,
                   pr_discovered, pr_pending, pr_out>>
    /\ UNCHANGED <<listingVars, regVars, rd, nonDiscVars>>

\* wait_for(proc.wait(), timeout=5) returned
Pr_WaitDone ==
    /\ pr_pc = "shutdown_wait"
    /\ pr_returncode # NoCode
    /\ pr_out' = ProbeResult
    /\ pr_pc' = "done"
    /\ UNCHANGED <<pr_child, pr_returncode, pr_stdout_open, pr_pipe,
                   pr_discovered, pr_pending, pr_cleanup>>
    /\ UNCHANGED <<listingVars, regVars, rd, nonDiscVars>>

\* wait_for(proc.wait(), timeout=5) timed out
Pr_WaitTimeout ==
    /\ pr_pc = "shutdown_wait"
    /\ pr_returncode = NoCode
    /\ pr_pc' = "kill"
    /\ UNCHANGED <<pr_child, pr_returncode, pr_stdout_open, pr_pipe,
                   pr_discovered, pr_pending, pr_cleanup, pr_out>>
    /\ UNCHANGED <<listingVars, regVars, rd, nonDiscVars>>

\* Pr_Kill leaving the child alone
Pr_Kill_Skipped ==
    /\ pr_pc = "kill"
    /\ pr_out' = ProbeResult
    /\ pr_pc' = "done"
    /\ UNCHANGED <<pr_child, pr_returncode, pr_stdout_open, pr_pipe,
                   pr_discovered, pr_pending, pr_cleanup>>
    /\ UNCHANGED <<listingVars, regVars, rd, nonDiscVars>>

\* except asyncio.TimeoutError: proc.kill(); on a child that was reaped in
\* the meantime kill() does nothing or raises ProcessLookupError
Pr_Kill ==
    /\ pr_pc = "kill"
    /\ \/ /\ pr_returncode = NoCode
          /\ pr_child' = IF pr_child = "running" THEN "exited" ELSE pr_child
          /\ pr_stdout_open' = FALSE
          /\ pr_cleanup' = Append(pr_cleanup, "kill")
          /\ pr_pc' = "kill_wait"
          /\ UNCHANGED pr_out
       \/ /\ pr_returncode # NoCode
          /\ \/ /\ pr_pc' = "kill_wait"
                /\ pr_cleanup' = Append(pr_cleanup, "kill")
                /\ UNCHANGED pr_out
             \/ /\ pr_out' = DRaise("ProcessLookupError")
                /\ pr_pc' = "done"
                /\ UNCHANGED pr_cleanup
          /\ UNCHANGED <<pr_child, pr_stdout_open>>
    /\ UNCHANGED <<pr_returncode, pr_pipe, pr_discovered, pr_pending>>
    /\ UNCHANGED <<listingVars, regVars, rd, nonDiscVars>>

\* the `await proc.wait()` after the kill returned
Pr_KillWait ==
    /\ pr_pc = "kill_wait"
    /\ pr_returncode # NoCode
    /\ pr_out' = ProbeResult
    /\ pr_pc' = "done"
    /\ UNCHANGED <<pr_child, pr_returncode, pr_stdout_open, pr_pipe,
                   pr_discovered, pr_pending, pr_cleanup>>
    /\ UNCHANGED <<listingVars, regVars, rd, nonDiscVars>>

ProbeChildStep == PrChild_Write \/ PrChild_CloseStdout \/ PrChild_Exit

ProbeStep ==
    \/ Pr_Launch \/ Pr_ReadLine \/ Pr_ReadEof \/ Pr_ReadTimeout \/ Pr_Shutdown
    \/ Pr_WaitDone \/ Pr_WaitTimeout \/ Pr_Kill \/ Pr_KillWait

-----------------------------------------------------------------------------
(* app/codex.py list_codex_models: the discovery strategies *)

\* `attempts` with the two JSON variants after the plaintext ones
ListingAttempts_PlainFirst ==
    <<"models list", "models", "models list --json", "models --json">>

\* `attempts`: the arguments of the four listing variants
ListingAttempts ==
    <<"models list --json", "models --json", "models list", "models">>

\* what a listing child can write to stdout
E_local == JStr(<<"l","o","c","a","l"," ","m","o","d","e","l">>)
DocNothing == [raw |-> <<>>, json |-> NotJson]
DocHeading == [raw |-> T_available, json |-> NotJson]
DocModels == [raw |-> JsonText, json |-> JDict([data |-> JList(<<E_gpt5, E_o4, E_local>>)])]
\* a listing whose only identifier ends in an effort word: ["o3 high"]
S_o3_high == <<"o","3"," ","h","i","g","h">>
DocEffortNamed == [raw |-> <<"[","]">>, json |-> JList(<<JStr(S_o3_high)>>)]
ListingDocs == {DocNothing, DocHeading, DocModels, DocEffortNamed}

\* config.toml as tomllib.load returns it
ConfigNoModel == [approval |-> JStr(<<"n","e","v","e","r">>)]
ConfigWithModel ==
    [model |-> JStr(<<"o","3">>),
     profiles |-> [t |-> "table", vals |-> <<JDict([model |-> JStr(<<"g","p","t","-","5","-","c","o","d","e","x">>)])>>]]
ConfigPool == {ConfigNoModel, ConfigWithModel}

DiscNone == [kind |-> "none", models |-> <<>>, detail |-> <<>>, exhausted |-> FALSE]
DiscReturn(models) ==
    [kind |-> "return", models |-> models, detail |-> <<>>, exhausted |-> FALSE]
DiscRaise(kind) ==
    [kind |-> kind, models |-> <<>>, detail |-> <<>>, exhausted |-> FALSE]
\* CodexError(f"Unable to list Codex models ({detail})")
DiscExhausted(errors) ==
    [kind |-> "CodexError", models |-> <<>>, detail |-> errors, exhausted |-> TRUE]

\* the step after a listing variant that yielded nothing
NextAfterListing == IF disc_k = Len(ListingAttempts) THEN "proto_start" ELSE "attempt"
\* ListingFailed without the errors.append
ListingFailed_Silent(reason) ==
    /\ disc_k' = disc_k + 1
    /\ disc_pc' = NextAfterListing
    /\ UNCHANGED <<disc_errors, disc_out>>

\* errors.append(f"{strategy} -> {reason}") and `continue`
ListingFailed(reason) ==
    /\ disc_errors' = Append(disc_errors,
                             [strategy |-> ListingAttempts[disc_k], reason |-> reason])
    /\ disc_k' = disc_k + 1
    /\ disc_pc' = NextAfterListing
    /\ UNCHANGED disc_out

\* _resolve_codex_executable, _ensure_workdir_exists, _build_codex_env
Disc_Prepare ==
    /\ disc_pc = "start"
    /\ \/ disc_pc' = "attempt" /\ UNCHANGED disc_out
       \/ disc_pc' = "done" /\ disc_out' = DiscRaise("CodexError")
    /\ UNCHANGED <<disc_k, disc_child, disc_tried, disc_yields, disc_errors>>
    /\ UNCHANGED <<probeVars, regVars, rd, nonDiscVars>>

\* create_subprocess_exec of one listing variant and its except clauses
Disc_Launch ==
    /\ disc_pc = "attempt"
    /\ disc_tried' = Append(disc_tried, ListingAttempts[disc_k])
    /\ \/ /\ disc_child' = "running"
          /\ disc_pc' = "communicate"
          /\ UNCHANGED <<disc_k, disc_yields, disc_errors, disc_out>>
       \/ /\ disc_out' = DiscRaise("CodexError")
          /\ disc_pc' = "done"
          /\ disc_yields' = Append(disc_yields, <<>>)
          /\ UNCHANGED <<disc_k, disc_child, disc_errors>>
       \/ /\ ListingFailed("launch")
          /\ disc_yields' = Append(disc_yields, <<>>)
          /\ UNCHANGED disc_child
    /\ UNCHANGED <<probeVars, regVars, rd, nonDiscVars>>

\* Disc_Timeout going on to the next variant without kill() and wait()
Disc_Timeout_NoReap ==
    /\ disc_pc = "communicate"
    /\ disc_yields' = Append(disc_yields, <<>>)
    /\ ListingFailed("timed out")
    /\ UNCHANGED <<disc_child, disc_tried>>
    /\ UNCHANGED <<probeVars, regVars, rd, nonDiscVars>>

\* wait_for(proc.communicate()) timed out: proc.kill(), await proc.wait();
\* on a child reaped in the meantime kill() can raise ProcessLookupError
Disc_Timeout ==
    /\ disc_pc = "communicate"
    /\ disc_child' = "none"
    /\ disc_yields' = Append(disc_yields, <<>>)
    /\ \/ ListingFailed("timed out")
       \/ /\ disc_out' = DiscRaise("ProcessLookupError")
          /\ disc_pc' = "done"
          /\ UNCHANGED <<disc_k, disc_errors>>
    /\ UNCHANGED disc_tried
    /\ UNCHANGED <<probeVars, regVars, rd, nonDiscVars>>

\* communicate() returned: the exit status, stderr and stdout of the child
Disc_CommunicateDone ==
    /\ disc_pc = "communicate"
    /\ disc_child' = "none"
    /\ \/ \E err \in StderrPool :
            /\ disc_yields' = Append(disc_yields, <<>>)
            /\ IF DecodeFails(err)
               THEN /\ disc_out' = DiscRaise("UnicodeDecodeError")
                    /\ disc_pc' = "done"
                    /\ UNCHANGED <<disc_k, disc_errors>>
               ELSE ListingFailed(IF StrStrip(err) # <<>> THEN "stderr" ELSE "exit code")
       \/ /\ disc_out' = DiscRaise("UnicodeDecodeError")
          /\ disc_pc' = "done"
          /\ disc_yields' = Append(disc_yields, <<>>)
          /\ UNCHANGED <<disc_k, disc_errors>>
       \/ \E doc \in ListingDocs :
            LET models == _parse_model_listing(doc)
            IN  /\ disc_yields' = Append(disc_yields, models)
                /\ IF models # <<>>
                   THEN /\ disc_out' = DiscReturn(models)
                        /\ disc_pc' = "done"
                        /\ UNCHANGED <<disc_k, disc_errors>>
                   ELSE ListingFailed("no models returned")
    /\ UNCHANGED disc_tried
    /\ UNCHANGED <<probeVars, regVars, rd, nonDiscVars>>

\* the call of _probe_models_via_proto
Disc_StartProto ==
    /\ disc_pc = "proto_start"
    /\ disc_tried' = Append(disc_tried, "proto")
    /\ disc_pc' = "proto"
    /\ pr_pc' = "launch"
    /\ pr_child' = "none"
    /\ pr_returncode' = NoCode
    /\ pr_stdout_open' = FALSE
    /\ pr_pipe' = <<>>
    /\ pr_discovered' = NoneStr
    /\ pr_pending' = DNone
    /\ pr_cleanup' = <<>>
    /\ pr_out' = DNone
    /\ UNCHANGED <<disc_k, disc_child, disc_yields, disc_errors, disc_out>>
    /\ UNCHANGED <<regVars, rd, nonDiscVars>>

\* the probe returned or raised
Disc_ProtoDone ==
    /\ disc_pc = "proto"
    /\ pr_pc = "done"
    /\ disc_yields' = Append(disc_yields, pr_out.models)
    /\ IF pr_out.kind = "return" /\ pr_out.models # <<>>
       THEN /\ disc_out' = DiscReturn(pr_out.models)
            /\ disc_pc' = "done"
            /\ UNCHANGED disc_errors
       ELSE /\ disc_errors' =
                 Append(disc_errors,
                        [strategy |-> "proto",
                         reason |-> IF pr_out.kind = "return"
                                    THEN "no models returned" ELSE pr_out.kind])
            /\ disc_pc' = "config"
            /\ UNCHANGED disc_out
    /\ UNCHANGED <<disc_k, disc_child, disc_tried>>
    /\ UNCHANGED <<probeVars, regVars, rd, nonDiscVars>>

\* _models_from_config and, when it yields nothing either, the final raise
Disc_Config ==
    /\ disc_pc = "config"
    /\ disc_tried' = Append(disc_tried, "config.toml")
    /\ disc_pc' = "done"
    /\ \/ \E reason \in {"TOMLDecodeError", "no models returned"} :
            /\ disc_yields' = Append(disc_yields, <<>>)
            /\ disc_errors' = Append(disc_errors,
                                     [strategy |-> "config.toml", reason |-> reason])
            /\ disc_out' = DiscExhausted(disc_errors')
       \/ \E data \in ConfigPool :
            LET models == _models_from_config(data)
            IN  /\ disc_yields' = Append(disc_yields, models)
                /\ IF models # <<>>
                   THEN disc_out' = DiscReturn(models) /\ UNCHANGED disc_errors
                   ELSE /\ disc_errors' =
                             Append(disc_errors, [strategy |-> "config.toml",
                                                  reason |-> "no models returned"])
                        /\ disc_out' = DiscExhausted(disc_errors')
    /\ UNCHANGED <<disc_k, disc_child>>
    /\ UNCHANGED <<probeVars, regVars, rd, nonDiscVars>>

ListingStep ==
    \/ Disc_Prepare \/ Disc_Launch \/ Disc_Timeout \/ Disc_CommunicateDone
    \/ Disc_StartProto \/ Disc_ProtoDone \/ Disc_Config

-----------------------------------------------------------------------------
(* app/model_registry.py: initialize_model_registry and the readers *)

MaxRefresh == 2         \* calls of initialize_model_registry

\* the exceptions `except Exception` catches (CancelledError is not one)
ExceptionKinds ==
    {"CodexError", "UnicodeDecodeError", "ProcessLookupError", "FileNotFoundError",
     "PermissionError", "OSError", "TOMLDecodeError"}

\* RegBegin emptying the published list in place before discovery
RegBegin_Clearing ==
    /\ reg_runs' = reg_runs + 1
    /\ disc_k' = 1
    /\ disc_child' = "none"
    /\ disc_tried' = <<>>
    /\ disc_yields' = <<>>
    /\ disc_errors' = <<>>
    /\ disc_out' = DiscNone
    /\ reg_pc' = "discover"
    /\ disc_pc' = "start"
    /\ reg_out' = DNone
    /\ heap' = [heap EXCEPT ![reg_ref] = <<>>]
    /\ UNCHANGED <<reg_ref, reg_last_error, reg_history>>
    /\ UNCHANGED <<probeVars, rd, nonDiscVars>>

\* the start of initialize_model_registry: _warn_if_legacy_env_present and
\* apply_codex_profile_overrides, which can raise CodexError, then the call of
\* list_codex_models
RegBegin ==
    /\ reg_runs' = reg_runs + 1
    /\ disc_k' = 1
    /\ disc_child' = "none"
    /\ disc_tried' = <<>>
    /\ disc_yields' = <<>>
    /\ disc_errors' = <<>>
    /\ disc_out' = DiscNone
    /\ \/ /\ reg_pc' = "discover"
          /\ disc_pc' = "start"
          /\ reg_out' = DNone
       \/ /\ reg_pc' = "done"
          /\ disc_pc' = "idle"
          /\ reg_out' = DRaise("CodexError")
    /\ UNCHANGED <<heap, reg_ref, reg_last_error, reg_history>>
    /\ UNCHANGED <<probeVars, rd, nonDiscVars>>

\* startup_event
Reg_Startup == reg_pc = "idle" /\ RegBegin

\* a later call of initialize_model_registry
Reg_Refresh == reg_pc = "done" /\ reg_runs < MaxRefresh /\ RegBegin

\* the store of a new catalog: _AVAILABLE_MODELS is bound to a new list
StoreCatalog(catalog) ==
    /\ heap' = Append(heap, catalog)
    /\ reg_ref' = Len(heap) + 1
    /\ reg_history' = Append(reg_history, catalog)
    /\ reg_out' = DReturn(catalog)

\* Reg_Finish with `except CodexError` in place of `except Exception`
Reg_Finish_OnlyCodexError ==
    /\ reg_pc = "discover"
    /\ disc_pc = "done"
    /\ reg_pc' = "done"
    /\ IF disc_out.kind = "return" /\ disc_out.models # <<>>
       THEN StoreCatalog(_augment_models(disc_out.models)) /\ reg_last_error' = FALSE
       ELSE IF disc_out.kind \in {"return", "CodexError"}
       THEN StoreCatalog(_augment_models(<<DEFAULT_MODEL>>)) /\ reg_last_error' = TRUE
       ELSE /\ reg_out' = DRaise(disc_out.kind)
            /\ UNCHANGED <<heap, reg_ref, reg_last_error, reg_history>>
    /\ UNCHANGED <<reg_runs, probeVars, listingVars, rd, nonDiscVars>>

\* list_codex_models returned or raised: the rest of the try statement, the
\* except clause and the return
Reg_Finish ==
    /\ reg_pc = "discover"
    /\ disc_pc = "done"
    /\ reg_pc' = "done"
    /\ IF disc_out.kind = "return" /\ disc_out.models # <<>>
       THEN StoreCatalog(_augment_models(disc_out.models)) /\ reg_last_error' = FALSE
       ELSE IF disc_out.kind = "return" \/ disc_out.kind \in ExceptionKinds
       THEN StoreCatalog(_augment_models(<<DEFAULT_MODEL>>)) /\ reg_last_error' = TRUE
       ELSE /\ reg_out' = DRaise(disc_out.kind)
            /\ UNCHANGED <<heap, reg_ref, reg_last_error, reg_history>>
    /\ UNCHANGED <<reg_runs, probeVars, listingVars, rd, nonDiscVars>>

\* _AVAILABLE_MODELS
AvailableModels == heap[reg_ref]

\* " ".join(tokens)
RECURSIVE JoinSpace(_)
JoinSpace(tokens) ==
    IF tokens = <<>> THEN <<>>
    ELSE IF Len(tokens) = 1 THEN tokens[1]
    ELSE tokens[1] \o <<" ">> \o JoinSpace(Tail(tokens))

\* _split_model_and_effort splitting at the first space instead of the last
_split_at_first_space(raw) ==
    LET tokens == StrSplit(raw)
        normalized == JoinSpace(tokens)
    IN  IF Len(tokens) > 1
           /\ StrLower(JoinSpace(Tail(tokens))) \in Range(REASONING_EFFORT_SUFFIXES)
        THEN [base |-> tokens[1], effort |-> StrLower(JoinSpace(Tail(tokens)))]
        ELSE [base |-> normalized, effort |-> NoneStr]

\* _split_model_and_effort(raw)
_split_model_and_effort(raw) ==
    LET tokens == StrSplit(raw)
        normalized == JoinSpace(tokens)
        base == JoinSpace(SubSeq(tokens, 1, Len(tokens) - 1))
        suffix == StrLower(tokens[Len(tokens)])
    IN  IF Len(tokens) > 1 /\ base # <<>> /\ suffix \in Range(REASONING_EFFORT_SUFFIXES)
        THEN [base |-> base, effort |-> suffix]
        ELSE [base |-> normalized, effort |-> NoneStr]

\* the reasoning aliases of get_available_models: every base with every suffix
RECURSIVE EffortAliases(_)
EffortAliases(models) ==
    IF models = <<>> THEN <<>>
    ELSE [i \in 1..Len(REASONING_EFFORT_SUFFIXES) |->
            Head(models) \o <<" ">> \o REASONING_EFFORT_SUFFIXES[i]]
         \o EffortAliases(Tail(models))

\* get_available_models(include_reasoning_aliases)
get_available_models(include_reasoning_aliases) ==
    IF include_reasoning_aliases /\ AvailableModels # <<>>
    THEN AvailableModels \o EffortAliases(AvailableModels)
    ELSE AvailableModels

\* get_default_model()
get_default_model ==
    IF AvailableModels # <<>> THEN AvailableModels[1] ELSE DEFAULT_MODEL

\* the names clients ask for; <<>> is a request without `model`
RequestPool ==
    {<<>>, <<"g","p","t","-","5">>, <<"g","p","t","-","5"," ","h","i","g","h">>, <<" ","g","p","t","-","5"," "," "," ","L","O","W"," ">>, <<"g","p","t","-","5"," ","t","u","r","b","o">>, <<"G","P","T","-","5">>,
     <<"h","i","g","h">>, <<"c","o","d","e","x","-","c","l","i">>, <<"c","o","d","e","x","-","c","l","i"," ","m","i","n","i","m","a","l">>, <<"l","o","c","a","l"," ","m","o","d","e","l">>, <<"l","o","c","a","l"," ","m","o","d","e","l"," ","m","e","d","i","u","m">>,
     <<"o","3"," ","m","a","x">>}

Rd_GetAvailable ==
    /\ \E include \in BOOLEAN :
         rd' = [RdNone EXCEPT !.call = "get_available_models", !.kind = "list",
                              !.list = get_available_models(include)]
    /\ UNCHANGED <<probeVars, listingVars, regVars, nonDiscVars>>

Rd_GetDefault ==
    /\ rd' = [RdNone EXCEPT !.call = "get_default_model", !.kind = "model",
                            !.model = get_default_model]
    /\ UNCHANGED <<probeVars, listingVars, regVars, nonDiscVars>>

\* choose_model(requested)
Rd_Choose ==
    /\ UNCHANGED <<probeVars, listingVars, regVars, nonDiscVars>>
    /\ \E requested \in RequestPool \cup Range(get_available_models(TRUE)) :
         LET split == _split_model_and_effort(requested)
             call == [RdNone EXCEPT !.call = "choose_model", !.requested = requested,
                                    !.before = AvailableModels,
                                    !.after = heap'[reg_ref']]
         IN  rd' = IF requested = <<>>
                   THEN [call EXCEPT !.kind = "model", !.model = get_default_model]
                   ELSE IF split.base \in Range(AvailableModels)
                   THEN [call EXCEPT !.kind = "model", !.model = split.base,
                                     !.effort = split.effort]
                   ELSE [call EXCEPT !.kind = "ValueError",
                                     !.list = get_available_models(TRUE)]

ReaderStep == Rd_GetAvailable \/ Rd_GetDefault \/ Rd_Choose

-----------------------------------------------------------------------------
(* Specifications of model discovery *)

\* the module's globals after import, nothing started
InitDiscovery ==
    /\ ProbeIdle /\ ListingIdle /\ RegIdle /\ rd = RdNone
    /\ hide_reasoning = FALSE
    /\ FilterIdle /\ RunIdle /\ SseIdle /\ SanIdle /\ ListIdle /\ MoreIdle

\* startup: one call of initialize_model_registry with everything it runs
NextDiscovery ==
    Reg_Startup \/ ListingStep \/ ProbeStep \/ ProbeChildStep \/ PrLoopReap \/ Reg_Finish

SpecDiscovery == InitDiscovery /\ [][NextDiscovery]_vars

\* the probe on its own, called after the four listing variants returned
\* nothing
InitProbe ==
    /\ pr_pc = "launch"
    /\ pr_child = "none"
    /\ pr_returncode = NoCode
    /\ pr_stdout_open = FALSE
    /\ pr_pipe = <<>>
    /\ pr_discovered = NoneStr
    /\ pr_pending = DNone
    /\ pr_cleanup = <<>>
    /\ pr_out = DNone
    /\ disc_pc = "proto"
    /\ disc_k = Len(ListingAttempts) + 1
    /\ disc_child = "none"
    /\ disc_tried = ListingAttempts \o <<"proto">>
    /\ disc_yields = [i \in 1..Len(ListingAttempts) |-> <<>>]
    /\ disc_errors = [i \in 1..Len(ListingAttempts) |->
                        [strategy |-> ListingAttempts[i], reason |-> "no models returned"]]
    /\ disc_out = DiscNone
    /\ reg_pc = "discover"
    /\ reg_runs = 1
    /\ heap = << <<DEFAULT_MODEL>> >>
    /\ reg_ref = 1
    /\ reg_last_error = FALSE
    /\ reg_out = DNone
    /\ reg_history = << <<DEFAULT_MODEL>> >>
    /\ rd = RdNone
    /\ hide_reasoning = FALSE
    /\ FilterIdle /\ RunIdle /\ SseIdle /\ SanIdle /\ ListIdle /\ MoreIdle

NextProbe == ProbeStep \/ ProbeChildStep \/ PrLoopReap

SpecProbe == InitProbe /\ [][NextProbe]_vars

\* The event loop runs the probe whenever it can continue, fires its timers
\* and collects the exit status of a child that ended; nothing is assumed of
\* the child.
FairSpecProbe == SpecProbe /\ WF_vars(ProbeStep) /\ WF_vars(PrLoopReap)

\* what list_codex_models can end with, as initialize_model_registry sees it
\* (an empty list is what the `if not models` of the caller is written for)
DiscoverySummaries ==
    {[kind |-> "return", models |-> m] :
        m \in {_parse_model_listing(DocModels), _parse_model_listing(DocEffortNamed),
               <<ProtoModel>>, _models_from_config(ConfigWithModel), <<>>}}
    \cup {[kind |-> k, models |-> <<>>] :
            k \in {"CodexError", "UnicodeDecodeError", "ProcessLookupError"}}

\* list_codex_models from its call to its end, in one step
Disc_Summary ==
    /\ disc_pc = "start"
    /\ disc_pc' = "done"
    /\ \E s \in DiscoverySummaries :
         disc_out' = [DiscNone EXCEPT !.kind = s.kind, !.models = s.models]
    /\ UNCHANGED <<disc_k, disc_child, disc_tried, disc_yields, disc_errors>>
    /\ UNCHANGED <<probeVars, regVars, rd, nonDiscVars>>

\* Disc_Summary leaves out no outcome of the strategies
DiscoverySummarySound ==
    disc_pc = "done" =>
        [kind |-> disc_out.kind, models |-> disc_out.models] \in DiscoverySummaries

\* the registry, refreshed while readers call it
NextRegistry == Reg_Startup \/ Reg_Refresh \/ Disc_Summary \/ Reg_Finish \/ ReaderStep

SpecRegistry == InitDiscovery /\ [][NextRegistry]_vars

-----------------------------------------------------------------------------
(* app/codex.py _build_cmd_and_env: the command line of `codex exec` *)

MaxOverrides == 3       \* items of the `overrides` dict

\* values of settings and overrides: None, str, bool
VNone == [t |-> "none"]
VStr(s) == [t |-> "str", s |-> s]
VBool(b) == [t |-> "bool", b |-> b]

\* bool(v)
Truthy(v) == IF v.t = "bool" THEN v.b ELSE IF v.t = "str" THEN v.s # <<>> ELSE FALSE

K_sandbox == <<"s","a","n","d","b","o","x">>
K_sandbox_mode == <<"s","a","n","d","b","o","x","_","m","o","d","e">>
K_reasoning_effort == <<"r","e","a","s","o","n","i","n","g","_","e","f","f","o","r","t">>
K_model_reasoning_effort == <<"m","o","d","e","l","_","r","e","a","s","o","n","i","n","g","_","e","f","f","o","r","t">>
K_hide_reasoning == <<"h","i","d","e","_","r","e","a","s","o","n","i","n","g">>
K_expose_reasoning == <<"e","x","p","o","s","e","_","r","e","a","s","o","n","i","n","g">>
K_hide_agent_reasoning == <<"h","i","d","e","_","a","g","e","n","t","_","r","e","a","s","o","n","i","n","g">>
K_approval_policy == <<"a","p","p","r","o","v","a","l","_","p","o","l","i","c","y">>
S_never == <<"n","e","v","e","r">>
K_network_access == <<"n","e","t","w","o","r","k","_","a","c","c","e","s","s">>
S_workspace_write == <<"w","o","r","k","s","p","a","c","e","-","w","r","i","t","e">>
S_danger_full_access == <<"d","a","n","g","e","r","-","f","u","l","l","-","a","c","c","e","s","s">>
S_medium == <<"m","e","d","i","u","m">>
S_high == <<"h","i","g","h">>
S_config == <<"-","-","c","o","n","f","i","g">>

\* a dict as the sequence of its items [k, v], in insertion order
DictKeys(d) == {d[i].k : i \in DOMAIN d}
DictGet(d, key, default) ==
    IF key \in DictKeys(d)
    THEN d[CHOOSE i \in DOMAIN d : d[i].k = key].v
    ELSE default
\* d[key] = value
DictSet(d, key, value) ==
    IF key \in DictKeys(d)
    THEN [i \in DOMAIN d |-> IF d[i].k = key THEN [k |-> key, v |-> value] ELSE d[i]]
    ELSE Append(d, [k |-> key, v |-> value])
\* d.update(other)
RECURSIVE DictUpdate(_, _)
DictUpdate(d, other) ==
    IF other = <<>> THEN d
    ELSE DictUpdate(DictSet(d, Head(other).k, Head(other).v), Tail(other))

\* the loop over overrides.items(): `mapped`
RECURSIVE MapOverrides(_, _)
MapOverrides(items, mapped) ==
    IF items = <<>> THEN mapped
    ELSE LET k == Head(items).k
             v == Head(items).v
             next == IF v = VNone THEN mapped
                     ELSE IF k = K_sandbox THEN DictSet(mapped, K_sandbox_mode, v)
                     ELSE IF k = K_reasoning_effort
                     THEN DictSet(mapped, K_model_reasoning_effort, v)
                     ELSE IF k = K_hide_reasoning
                     THEN DictSet(mapped, K_hide_agent_reasoning, VBool(Truthy(v)))
                     ELSE IF k = K_expose_reasoning
                     THEN DictSet(mapped, K_hide_agent_reasoning, VBool(~Truthy(v)))
                     ELSE DictSet(mapped, k, v)
         IN  MapOverrides(Tail(items), next)

\* `cfg` before and after the overrides
DefaultCfg ==
    <<[k |-> K_sandbox_mode, v |-> VStr(sandbox_mode)],
      [k |-> K_model_reasoning_effort, v |-> VStr(S_medium)],
      [k |-> K_hide_agent_reasoning, v |-> VBool(hide_reasoning)]>>
\* the merge the other way round: the defaults written over the overrides
EffectiveCfg_DefaultsWin(overrides) ==
    IF overrides # <<>> THEN DictUpdate(MapOverrides(overrides, <<>>), DefaultCfg)
    ELSE DefaultCfg

EffectiveCfg(overrides) ==
    IF overrides # <<>> THEN DictUpdate(DefaultCfg, MapOverrides(overrides, <<>>))
    ELSE DefaultCfg

\* "true" if value else "false"
TomlBool(b) == IF b THEN <<"t","r","u","e">> ELSE <<"f","a","l","s","e">>
\* str(value) of a bool
PyBool(b) == IF b THEN <<"T","r","u","e">> ELSE <<"F","a","l","s","e">>

\* ConfigToken writing booleans the way Python prints them
ConfigToken_PyBool(key, value) ==
    IF value.t = "str" THEN key \o <<"=", "\"">> \o value.s \o <<"\"">>
    ELSE IF value.t = "bool" THEN key \o <<"=">> \o PyBool(value.b)
    ELSE key \o <<"=">> \o <<"N","o","n","e">>

\* f"{key}=\"{value}\"", f"{key}={bool_value}", f"{key}={value}"
ConfigToken(key, value) ==
    IF value.t = "str" THEN key \o <<"=", "\"">> \o value.s \o <<"\"">>
    ELSE IF value.t = "bool" THEN key \o <<"=">> \o TomlBool(value.b)
    ELSE key \o <<"=">> \o <<"N","o","n","e">>

\* the loop over cfg.items()
RECURSIVE ConfigArgs(_)
ConfigArgs(cfg) ==
    IF cfg = <<>> THEN <<>>
    ELSE (IF Head(cfg).k = K_network_access THEN <<>>
          ELSE <<S_config, ConfigToken(Head(cfg).k, Head(cfg).v)>>)
         \o ConfigArgs(Tail(cfg))

\* the loop over images
RECURSIVE ImageArgs(_)
ImageArgs(images) ==
    IF images = <<>> THEN <<>>
    ELSE <<<<"-","-","i","m","a","g","e">>, Head(images)>> \o ImageArgs(Tail(images))

\* `if model:`
ModelArgs(model) ==
    IF model # NoneStr /\ model # <<>>
    THEN <<S_config, <<"m","o","d","e","l","=","\"">> \o model \o <<"\"">> >>
    ELSE <<>>

\* NetworkArgs without the test of the sandbox mode
NetworkArgs_AnyMode(cfg, overrides) ==
    LET override_network == DictGet(overrides, K_network_access, VNone)
        allow_network == IF override_network # VNone THEN Truthy(override_network)
                         ELSE workspace_network_access
    IN  IF override_network # VNone \/ workspace_network_access
        THEN <<S_config,
               <<"s","a","n","d","b","o","x","_","w","o","r","k","s","p","a","c","e","_","w","r","i","t","e","=","{"," ","n","e","t","w","o","r","k","_","a","c","c","e","s","s"," ","="," ">> \o TomlBool(allow_network)
                  \o <<" ","}">>>>
        ELSE <<>>

\* NetworkArgs writing the flag only when the network is allowed
NetworkArgs_OnlyTrue(cfg, overrides) ==
    LET override_network == DictGet(overrides, K_network_access, VNone)
        effective_sandbox == DictGet(cfg, K_sandbox_mode, VStr(sandbox_mode))
        allow_network == IF override_network # VNone THEN Truthy(override_network)
                         ELSE workspace_network_access
    IN  IF effective_sandbox = VStr(S_workspace_write) /\ allow_network
        THEN <<S_config, <<"s","a","n","d","b","o","x","_","w","o","r","k","s","p","a","c","e","_","w","r","i","t","e","=","{"," ","n","e","t","w","o","r","k","_","a","c","c","e","s","s"," ","="," ","t","r","u","e"," ","}">>>>
        ELSE <<>>

\* override_network, effective_sandbox and the sandbox_workspace_write flag
NetworkArgs(cfg, overrides) ==
    LET override_network == DictGet(overrides, K_network_access, VNone)
        effective_sandbox == DictGet(cfg, K_sandbox_mode, VStr(sandbox_mode))
        allow_network == IF override_network # VNone THEN Truthy(override_network)
                         ELSE workspace_network_access
    IN  IF effective_sandbox = VStr(S_workspace_write)
           /\ (override_network # VNone \/ workspace_network_access)
        THEN <<S_config,
               <<"s","a","n","d","b","o","x","_","w","o","r","k","s","p","a","c","e","_","w","r","i","t","e","=","{"," ","n","e","t","w","o","r","k","_","a","c","c","e","s","s"," ","="," ">> \o TomlBool(allow_network)
                  \o <<" ","}">>>>
        ELSE <<>>

\* the builder putting the model flag in front of the other --config flags
_build_cmd_and_env_ModelFirst(prompt, overrides, images, model) ==
    LET cfg == EffectiveCfg(overrides)
    IN  <<<<"/","b","i","n","/","c","o","d","e","x">>, <<"e","x","e","c">>, prompt, <<"-","-","c","o","l","o","r">>, <<"n","e","v","e","r">>>>
        \o ImageArgs(images)
        \o ModelArgs(model)
        \o ConfigArgs(cfg)
        \o NetworkArgs(cfg, overrides)

\* _build_cmd_and_env(prompt, overrides, images, model)
_build_cmd_and_env(prompt, overrides, images, model) ==
    LET cfg == EffectiveCfg(overrides)
    IN  <<<<"/","b","i","n","/","c","o","d","e","x">>, <<"e","x","e","c">>, prompt, <<"-","-","c","o","l","o","r">>, <<"n","e","v","e","r">>>>
        \o ImageArgs(images)
        \o ConfigArgs(cfg)
        \o ModelArgs(model)
        \o NetworkArgs(cfg, overrides)

-----------------------------------------------------------------------------
(* Specification of one call of _build_cmd_and_env *)

SandboxModes == {S_read_only, S_workspace_write, S_danger_full_access}

\* the keys of x_codex (app/schemas.py), of the tests and of the rename table,
\* and one key the table does not rename
OverrideKeys ==
    {K_sandbox, K_reasoning_effort, K_network_access, K_hide_reasoning,
     K_expose_reasoning, K_hide_agent_reasoning, K_approval_policy}
OverrideValues(key) ==
    IF key = K_sandbox THEN {VNone} \cup {VStr(m) : m \in SandboxModes}
    ELSE IF key = K_reasoning_effort THEN {VStr(S_high)}
    ELSE IF key = K_approval_policy THEN {VStr(S_never)}
    ELSE {VNone, VBool(TRUE), VBool(FALSE)}

InitCmd ==
    /\ sandbox_mode \in SandboxModes
    /\ workspace_network_access \in BOOLEAN
    /\ hide_reasoning \in BOOLEAN
    /\ bc_pc = "args"
    /\ bc_overrides = <<>>
    /\ bc_images = <<>>
    /\ bc_model = NoneStr
    /\ bc_out = [kind |-> "none", cmd |-> <<>>]
    /\ FilterIdle /\ RunIdle /\ SseIdle /\ SanIdle /\ ListIdle /\ DiscIdle /\ ChatIdle
    /\ ImgIdle /\ PipeIdle

\* the caller puts one more item into the overrides
Cmd_AddOverride ==
    /\ bc_pc = "args"
    /\ Len(bc_overrides) < MaxOverrides
    /\ \E key \in OverrideKeys \ DictKeys(bc_overrides) :
         \E value \in OverrideValues(key) :
            bc_overrides' = Append(bc_overrides, [k |-> key, v |-> value])
    /\ UNCHANGED <<sandbox_mode, workspace_network_access, bc_pc, bc_images, bc_model,
                   bc_out>>
    /\ UNCHANGED nonCmdVars

\* the caller passes an image and a model name
Cmd_AddImageAndModel ==
    /\ bc_pc = "args"
    /\ bc_images = <<>>
    /\ bc_images' = <<<<"/","t","m","p","/","a",".","p","n","g">>>>
    /\ bc_model' = <<"g","p","t","-","5">>
    /\ UNCHANGED <<sandbox_mode, workspace_network_access, bc_pc, bc_overrides, bc_out>>
    /\ UNCHANGED nonCmdVars

\* the caller passes two images, not in alphabetical order, and a model name
Cmd_AddImages ==
    /\ bc_pc = "args"
    /\ bc_images = <<>>
    /\ bc_images' = <<<<"/","t","m","p","/","b",".","p","n","g">>, <<"/","t","m","p","/","a",".","p","n","g">>>>
    /\ bc_model' = <<"o","3">>
    /\ UNCHANGED <<sandbox_mode, workspace_network_access, bc_pc, bc_overrides, bc_out>>
    /\ UNCHANGED nonCmdVars

\* the call returns the command
Cmd_Build ==
    /\ bc_pc = "args"
    /\ bc_pc' = "done"
    /\ bc_out' = [kind |-> "return",
                  cmd |-> _build_cmd_and_env(<<"h","e","l","l","o">>, bc_overrides, bc_images, bc_model)]
    /\ UNCHANGED <<sandbox_mode, workspace_network_access, bc_overrides, bc_images,
                   bc_model>>
    /\ UNCHANGED nonCmdVars

\* the call raises: settings.hide_reasoning is read although app/config.py
\* declares no such field (AttributeError unless it was set on the object),
\* _resolve_codex_executable and _ensure_workdir_exists raise CodexError
Cmd_BuildFails ==
    /\ bc_pc = "args"
    /\ bc_pc' = "done"
    /\ \E kind \in {"AttributeError", "CodexError"} :
         bc_out' = [kind |-> kind, cmd |-> <<>>]
    /\ UNCHANGED <<sandbox_mode, workspace_network_access, bc_overrides, bc_images,
                   bc_model>>
    /\ UNCHANGED nonCmdVars

NextCmd ==
    \/ Cmd_AddOverride
    \/ Cmd_AddImageAndModel
    \/ Cmd_AddImages
    \/ Cmd_Build
    \/ Cmd_BuildFails

SpecCmd == InitCmd /\ [][NextCmd]_vars

-----------------------------------------------------------------------------
(***************************************************************************)
(* app/main.py chat_completions: what is answered once the adapter has     *)
(* produced the model's output, with app/prompt.py                         *)
(* extract_function_call_payload.  The output is a record [frags, json,    *)
(* fence]: the texts run_codex yields one by one (run_codex_last_message   *)
(* returns them joined), what json.loads makes of the stripped text, and   *)
(* what it makes of the text with a surrounding code fence removed.        *)
(***************************************************************************)
JNum(n) == [t |-> "num", n |-> n]

\* stands for the one character U+0060
Backtick == "U+0060"

\* Python truth of a JSON value
JsonTruthy(v) ==
    CASE v.t = "str" -> v.s # <<>>
      [] v.t = "num" -> v.n # 0
      [] v.t = "dict" -> DOMAIN v.d # {}
      [] v.t = "list" -> v.items # <<>>
      [] OTHER -> FALSE

\* the `function_call` picked out of one parsed candidate
FunctionCallOf(parsed) ==
    IF parsed.t # "dict" THEN NoCall
    ELSE IF "function_call" \in DOMAIN parsed.d /\ parsed.d.function_call.t = "dict"
         THEN [t |-> "call", d |-> parsed.d.function_call.d]
    ELSE IF {"name", "arguments"} \subseteq DOMAIN parsed.d
         THEN [t |-> "call", d |-> [name |-> parsed.d.name, arguments |-> parsed.d.arguments]]
    ELSE NoCall

\* if function_call and function_call.get("name")
CallAccepted(call) ==
    /\ call # NoCall
    /\ DOMAIN call.d # {}
    /\ JsonTruthy(Get(call.d, "name"))

\* arguments that are not a string are replaced by their json.dumps text
DumpedArguments(call) ==
    LET arguments == IF "arguments" \in DOMAIN call.d THEN call.d.arguments ELSE JDict(<<>>)
    IN  [t |-> "call",
         d |-> [k \in DOMAIN call.d \cup {"arguments"} |->
                   IF k # "arguments" THEN call.d[k]
                   ELSE IF arguments.t = "str" THEN arguments
                   ELSE [t |-> "dumps", of |-> arguments]]]

extract_function_call_payload(text) ==
    LET candidates == <<text.json, text.fence>>
        accepted == SelectSeq(candidates, LAMBDA parsed : CallAccepted(FunctionCallOf(parsed)))
    IN  IF StrStrip(text.raw) = <<>> THEN [call |-> NoCall, text |-> text.raw]
        ELSE IF accepted # <<>>
             THEN [call |-> DumpedArguments(FunctionCallOf(Head(accepted))), text |-> <<>>]
        ELSE [call |-> NoCall, text |-> text.raw]

\* FunctionCallPayload(**function_call_dict): name must be a str
PayloadValid(call) == call.d.name.t = "str"
FunctionCallPayload(call) == [t |-> "call", name |-> call.d.name.s, arguments |-> call.d.arguments]

function_call_supported == ch_functions
function_call_disabled == ch_function_call = "none"

\* the text of the whole output
OutputText(output) == [raw |-> Concat(output.frags), json |-> output.json, fence |-> output.fence]

Chunk(content, function_call, reason) ==
    [content |-> content, function_call |-> function_call, finish_reason |-> reason]
DoneMarker == [content |-> [t |-> "none"], function_call |-> NoCall, finish_reason |-> "[DONE]"]
Content(chars) == [t |-> "str", s |-> chars]
NoContent == [t |-> "none"]

\* event_gen: one text of run_codex
Chat_StreamText ==
    /\ ch_pc = "run" /\ ch_stream
    /\ ch_next <= Len(ch_output.frags)
    /\ LET text == ch_output.frags[ch_next]
       IN  /\ ch_next' = ch_next + 1
           /\ IF text = <<>> THEN UNCHANGED <<ch_buffered, ch_events>>
              ELSE IF function_call_supported
                   THEN /\ ch_buffered' = Append(ch_buffered, text)
                        /\ UNCHANGED ch_events
              ELSE /\ ch_events' = Append(ch_events, Chunk(Content(text), NoCall, "null"))
                   /\ UNCHANGED ch_buffered
    /\ UNCHANGED <<ch_pc, ch_stream, ch_functions, ch_function_call, ch_output,
                   ch_finish, ch_message, ch_raised>>
    /\ UNCHANGED nonChatVars

\* event_gen: the function_call_supported block after the loop, up to finish_reason
Chat_StreamTail ==
    /\ ch_pc = "run" /\ ch_stream
    /\ ch_next > Len(ch_output.frags)
    /\ function_call_supported
    /\ LET combined == [raw |-> Concat(ch_buffered), json |-> ch_output.json,
                        fence |-> ch_output.fence]
           extracted == extract_function_call_payload(combined)
       IN  IF extracted.call # NoCall /\ ~function_call_disabled
           THEN IF PayloadValid(extracted.call)
                THEN /\ ch_events' = Append(ch_events,
                            Chunk(NoContent, FunctionCallPayload(extracted.call), "absent"))
                     /\ ch_finish' = "function_call"
                     /\ ch_pc' = "final_chunk"
                     /\ UNCHANGED ch_raised
                ELSE /\ ch_raised' = "ValidationError"
                     /\ ch_pc' = "end"
                     /\ UNCHANGED <<ch_events, ch_finish>>
           ELSE LET content_to_emit == IF extracted.call = NoCall THEN extracted.text
                                       ELSE combined.raw
                IN  /\ ch_events' = IF content_to_emit # <<>>
                                    THEN Append(ch_events,
                                            Chunk(Content(content_to_emit), NoCall, "absent"))
                                    ELSE ch_events
                    /\ ch_finish' = "stop"
                    /\ ch_pc' = "final_chunk"
                    /\ UNCHANGED ch_raised
    /\ UNCHANGED <<ch_stream, ch_functions, ch_function_call, ch_output, ch_next,
                   ch_buffered, ch_message>>
    /\ UNCHANGED nonChatVars

Chat_StreamFinalChunk ==
    /\ ch_pc = "final_chunk"
    /\ ch_events' = Append(ch_events, Chunk(NoContent, NoCall, ch_finish))
    /\ ch_pc' = "done_marker"
    /\ UNCHANGED <<ch_stream, ch_functions, ch_function_call, ch_output, ch_next,
                   ch_buffered, ch_finish, ch_message, ch_raised>>
    /\ UNCHANGED nonChatVars

Chat_StreamDone ==
    /\ \/ ch_pc = "done_marker"
       \/ /\ ch_pc = "run" /\ ch_stream
          /\ ch_next > Len(ch_output.frags)
          /\ ~function_call_supported
    /\ ch_events' = Append(ch_events, DoneMarker)
    /\ ch_pc' = "end"
    /\ UNCHANGED <<ch_stream, ch_functions, ch_function_call, ch_output, ch_next,
                   ch_buffered, ch_finish, ch_message, ch_raised>>
    /\ UNCHANGED nonChatVars

\* the non-streaming branch
Chat_Final ==
    /\ ch_pc = "run" /\ ~ch_stream
    /\ LET final == OutputText(ch_output)
           extracted == IF function_call_supported THEN extract_function_call_payload(final)
                        ELSE [call |-> NoCall, text |-> final.raw]
       IN  IF extracted.call # NoCall /\ ~function_call_disabled
           THEN IF PayloadValid(extracted.call)
                THEN /\ ch_message' = [content |-> NoContent,
                                       function_call |-> FunctionCallPayload(extracted.call)]
                     /\ ch_finish' = "function_call"
                     /\ UNCHANGED ch_raised
                ELSE /\ ch_raised' = "ValidationError"
                     /\ UNCHANGED <<ch_message, ch_finish>>
           ELSE /\ ch_message' = [content |-> Content(IF extracted.call = NoCall
                                                       THEN extracted.text ELSE final.raw),
                                  function_call |-> NoCall]
                /\ ch_finish' = "stop"
                /\ UNCHANGED ch_raised
    /\ ch_pc' = "end"
    /\ UNCHANGED <<ch_stream, ch_functions, ch_function_call, ch_output, ch_next,
                   ch_buffered, ch_events>>
    /\ UNCHANGED nonChatVars

\* the adapter raises CodexError: HTTP 500, or the stream breaks off
Chat_CodexError ==
    /\ ch_pc = "run"
    /\ ch_raised' = "CodexError"
    /\ ch_pc' = "end"
    /\ UNCHANGED <<ch_stream, ch_functions, ch_function_call, ch_output, ch_next,
                   ch_buffered, ch_events, ch_finish, ch_message>>
    /\ UNCHANGED nonChatVars

J_call == JDict([function_call |-> JDict([name |-> JStr(<<"f">>),
                                          arguments |-> JDict([city |-> JStr(<<"O","s","a","k","a">>)])])])
Outputs ==
    { [frags |-> <<>>, json |-> NotJson, fence |-> NotJson],
      [frags |-> <<<<"I","t"," ","i","s"," ","s","u","n","n","y",".","\n">>>>, json |-> NotJson, fence |-> NotJson],
      [frags |-> <<<<"o","n","e","\n">>, <<>>, <<"t","w","o","\n">>>>, json |-> NotJson, fence |-> NotJson],
      [frags |-> <<<<"{","\"","f","u","n","c","t","i","o","n","_","c","a","l","l","\"",":"," ","{","\"","n","a","m","e","\"",":"," ","\"","f","\"",","," ","\"","a","r","g","u","m","e","n","t","s","\"",":"," ","{","\"","c","i","t","y","\"",":"," ","\"","O","s","a","k","a","\"","}","}","}","\n">>>>,
       json |-> J_call, fence |-> J_call],
      [frags |-> <<<<Backtick,Backtick,Backtick,"j","s","o","n","\n">>, <<"{","\"","f","u","n","c","t","i","o","n","_","c","a","l","l","\"",":"," ","{","\"","n","a","m","e","\"",":"," ","\"","f","\"",","," ","\"","a","r","g","u","m","e","n","t","s","\"",":"," ","{","\"","c","i","t","y","\"",":"," ","\"","O","s","a","k","a","\"","}","}","}","\n">>, <<Backtick,Backtick,Backtick,"\n">>>>,
       json |-> NotJson, fence |-> J_call],
      [frags |-> <<<<"{","\"","n","a","m","e","\"",":"," ","\"","f","\"",","," ","\"","a","r","g","u","m","e","n","t","s","\"",":"," ","\"","{","}","\"","}","\n">>>>,
       json |-> JDict([name |-> JStr(<<"f">>), arguments |-> JStr(<<"{","}">>)]),
       fence |-> JDict([name |-> JStr(<<"f">>), arguments |-> JStr(<<"{","}">>)])],
      [frags |-> <<<<"{","\"","f","u","n","c","t","i","o","n","_","c","a","l","l","\"",":"," ","{","\"","a","r","g","u","m","e","n","t","s","\"",":"," ","{","}","}","}","\n">>>>,
       json |-> JDict([function_call |-> JDict([arguments |-> JDict(<<>>)])]),
       fence |-> JDict([function_call |-> JDict([arguments |-> JDict(<<>>)])])],
      [frags |-> <<<<"{","\"","f","u","n","c","t","i","o","n","_","c","a","l","l","\"",":"," ","{","\"","n","a","m","e","\"",":"," ","5","}","}","\n">>>>,
       json |-> JDict([function_call |-> JDict([name |-> JNum(5)])]),
       fence |-> JDict([function_call |-> JDict([name |-> JNum(5)])])],
      [frags |-> <<<<"[","\"","f","\"","]","\n">>>>, json |-> JList(<<JStr(<<"f">>)>>), fence |-> JList(<<JStr(<<"f">>)>>)] }

FunctionCallRequests == {"absent", "auto", "none", "forced"}

InitChat ==
    /\ FilterIdle /\ RunIdle /\ SseIdle /\ SanIdle /\ ListIdle /\ DiscIdle /\ CmdIdle
    /\ ImgIdle /\ PipeIdle
    /\ hide_reasoning = FALSE
    /\ ch_pc = "run"
    /\ ch_stream \in BOOLEAN
    /\ ch_functions \in BOOLEAN
    /\ ch_function_call \in FunctionCallRequests
    /\ ch_output \in Outputs
    /\ ch_next = 1
    /\ ch_buffered = <<>>
    /\ ch_events = <<>>
    /\ ch_finish = "unset"
    /\ ch_message = NoMessage
    /\ ch_raised = "none"

NextChat ==
    \/ Chat_StreamText
    \/ Chat_StreamTail
    \/ Chat_StreamFinalChunk
    \/ Chat_StreamDone
    \/ Chat_Final
    \/ Chat_CodexError

SpecChat == InitChat /\ [][NextChat]_vars

-----------------------------------------------------------------------------
(***************************************************************************)
(* app/main.py: the temporary image files of one request.  Both endpoints  *)
(* save the images, then run the rest of the handler inside                *)
(* try/finally; the finally clause removes the files when the handler is   *)
(* left.  A streaming handler is left by `return StreamingResponse(...)`:  *)
(* event_gen, and with it run_codex and the child, starts only when the    *)
(* server iterates the response body afterwards.                           *)
(***************************************************************************)
MaxImageUrls == 2

\* the finally clause: os.remove(p) for every saved path
RemoveImages == im_exists \ Range(im_paths)

SandboxValues == {"unset", "read-only", "workspace-write", "danger-full-access"}

\* a gate that lets every request through
DangerBlocked_Never == FALSE

\* the safety gate of chat_completions; responses_endpoint has none
DangerBlocked ==
    /\ im_endpoint = "chat"
    /\ im_sandbox = "danger-full-access"
    /\ ~im_allow

\* the gate raises HTTPException(400): nothing was saved, nothing is started
Img_GateRejects ==
    /\ im_pc = "gate"
    /\ DangerBlocked
    /\ im_pc' = "left"
    /\ im_status' = 400
    /\ UNCHANGED <<im_sandbox, im_allow, im_endpoint, im_stream, im_urls, im_paths,
                   im_exists, im_gen, im_child, im_args, im_seen>>
    /\ UNCHANGED nonImgVars

\* the request passes the gate and goes on to save its images
Img_GatePasses ==
    /\ im_pc = "gate"
    /\ ~DangerBlocked
    /\ im_pc' = "save"
    /\ UNCHANGED <<im_sandbox, im_allow, im_endpoint, im_stream, im_urls, im_paths,
                   im_exists, im_gen, im_child, im_args, im_seen, im_status>>
    /\ UNCHANGED nonImgVars

\* save_image_to_temp(u) returned a new path
Img_Save ==
    /\ im_pc = "save"
    /\ Len(im_paths) < im_urls
    /\ im_paths' = Append(im_paths, Len(im_paths) + 1)
    /\ im_exists' = im_exists \cup {Len(im_paths) + 1}
    /\ UNCHANGED <<im_sandbox, im_allow, im_endpoint, im_stream, im_urls, im_pc, im_gen, im_child, im_args,
                   im_seen, im_status>>
    /\ UNCHANGED nonImgVars

\* save_image_to_temp(u) raised ValueError: the files saved so far are removed
Img_SaveFails ==
    /\ im_pc = "save"
    /\ Len(im_paths) < im_urls
    /\ im_exists' = RemoveImages
    /\ im_pc' = "left"
    /\ im_status' = 400
    /\ UNCHANGED <<im_sandbox, im_allow, im_endpoint, im_stream, im_urls, im_paths, im_gen, im_child, im_args,
                   im_seen>>
    /\ UNCHANGED nonImgVars

\* `return StreamingResponse(event_gen(), ...)` and the finally clause
Img_ReturnStream ==
    /\ im_pc = "save"
    /\ Len(im_paths) = im_urls
    /\ im_stream
    /\ im_gen' = "created"
    /\ im_exists' = RemoveImages
    /\ im_pc' = "left"
    /\ im_status' = 200
    /\ UNCHANGED <<im_sandbox, im_allow, im_endpoint, im_stream, im_urls, im_paths, im_child, im_args, im_seen>>
    /\ UNCHANGED nonImgVars

\* `final = await run_codex_last_message(...)`: the child is launched
Img_LastLaunch ==
    /\ im_pc = "save"
    /\ Len(im_paths) = im_urls
    /\ ~im_stream
    /\ im_child' = "running"
    /\ im_args' = im_paths
    /\ im_pc' = "await_last"
    /\ UNCHANGED <<im_sandbox, im_allow, im_endpoint, im_stream, im_urls, im_paths, im_exists, im_gen, im_seen,
                   im_status>>
    /\ UNCHANGED nonImgVars

\* run_codex_last_message returned or raised after the child exited
Img_LastDone ==
    /\ im_pc = "await_last"
    /\ im_child = "exited"
    /\ im_exists' = RemoveImages
    /\ im_pc' = "left"
    /\ \E status \in {200, 500} : im_status' = status
    /\ UNCHANGED <<im_sandbox, im_allow, im_endpoint, im_stream, im_urls, im_paths, im_gen, im_child, im_args,
                   im_seen>>
    /\ UNCHANGED nonImgVars

\* run_codex_last_message raised 'timed out'; it leaves the child running
Img_LastTimeout ==
    /\ im_pc = "await_last"
    /\ im_child = "running"
    /\ im_exists' = RemoveImages
    /\ im_pc' = "left"
    /\ im_status' = 500
    /\ UNCHANGED <<im_sandbox, im_allow, im_endpoint, im_stream, im_urls, im_paths, im_gen, im_child, im_args,
                   im_seen>>
    /\ UNCHANGED nonImgVars

\* responses_endpoint.event_gen yields response.created before run_codex
Img_GenCreatedEvent ==
    /\ im_gen = "created"
    /\ im_endpoint = "responses"
    /\ im_gen' = "first_event"
    /\ UNCHANGED <<im_sandbox, im_allow, im_endpoint, im_stream, im_urls, im_paths, im_exists, im_pc, im_child,
                   im_args, im_seen, im_status>>
    /\ UNCHANGED nonImgVars

\* event_gen starts `async for text in run_codex(...)`: the child is launched
Img_GenLaunch ==
    /\ \/ im_gen = "created" /\ im_endpoint = "chat"
       \/ im_gen = "first_event"
    /\ im_child' = "running"
    /\ im_args' = im_paths
    /\ im_gen' = "run_codex"
    /\ UNCHANGED <<im_sandbox, im_allow, im_endpoint, im_stream, im_urls, im_paths, im_exists, im_pc, im_seen,
                   im_status>>
    /\ UNCHANGED nonImgVars

\* run_codex ends: the child exited, or it was killed and reaped on a timeout
\* or when the client went away
Img_GenDone ==
    /\ im_gen = "run_codex"
    /\ im_child' = "exited"
    /\ im_gen' = "closed"
    /\ UNCHANGED <<im_sandbox, im_allow, im_endpoint, im_stream, im_urls, im_paths, im_exists, im_pc, im_args,
                   im_seen, im_status>>
    /\ UNCHANGED nonImgVars

\* the client goes away before the generator reached run_codex
Img_GenClose ==
    /\ im_gen \in {"created", "first_event"}
    /\ im_gen' = "closed"
    /\ UNCHANGED <<im_sandbox, im_allow, im_endpoint, im_stream, im_urls, im_paths, im_exists, im_pc, im_child,
                   im_args, im_seen, im_status>>
    /\ UNCHANGED nonImgVars

\* the child opens the files named by --image
Img_ChildOpens ==
    /\ im_child = "running"
    /\ im_seen = "unread"
    /\ im_args # <<>>
    /\ im_seen' = IF Range(im_args) \subseteq im_exists THEN "found" ELSE "missing"
    /\ UNCHANGED <<im_sandbox, im_allow, im_endpoint, im_stream, im_urls, im_paths, im_exists, im_pc, im_gen,
                   im_child, im_args, im_status>>
    /\ UNCHANGED nonImgVars

\* the child exits on its own
Img_ChildExit ==
    /\ im_child = "running"
    /\ im_child' = "exited"
    /\ UNCHANGED <<im_sandbox, im_allow, im_endpoint, im_stream, im_urls, im_paths, im_exists, im_pc, im_gen,
                   im_args, im_seen, im_status>>
    /\ UNCHANGED nonImgVars

InitImages ==
    /\ FilterIdle /\ RunIdle /\ SseIdle /\ SanIdle /\ ListIdle /\ DiscIdle
    /\ CmdIdle /\ ChatIdle /\ PipeIdle
    /\ hide_reasoning = FALSE
    /\ im_endpoint \in {"chat", "responses"}
    /\ im_stream \in BOOLEAN
    /\ im_urls \in 0..MaxImageUrls
    /\ im_sandbox \in SandboxValues
    /\ im_allow \in BOOLEAN
    /\ im_paths = <<>>
    /\ im_exists = {}
    /\ im_pc = "gate"
    /\ im_gen = "none"
    /\ im_child = "none"
    /\ im_args = <<>>
    /\ im_seen = "unread"
    /\ im_status = 0

NextImages ==
    \/ Img_GateRejects
    \/ Img_GatePasses
    \/ Img_Save
    \/ Img_SaveFails
    \/ Img_ReturnStream
    \/ Img_LastLaunch
    \/ Img_LastDone
    \/ Img_LastTimeout
    \/ Img_GenCreatedEvent
    \/ Img_GenLaunch
    \/ Img_GenDone
    \/ Img_GenClose
    \/ Img_ChildOpens
    \/ Img_ChildExit

SpecImages == InitImages /\ [][NextImages]_vars

-----------------------------------------------------------------------------
(***************************************************************************)
(* app/codex.py run_codex and the pipes of its child.  The child is        *)
(* started with stdout=PIPE and stderr=PIPE.  run_codex reads stdout line  *)
(* by line until end of file, then waits for the exit; it reads stderr     *)
(* only after a non-zero exit.  What the child writes to stderr stays in   *)
(* the pipe and in the stream reader's buffer; the reader stops taking     *)
(* data at its limit, and once the pipe is full as well the child's next   *)
(* write to stderr blocks.                                                 *)
(***************************************************************************)
MaxWrites == 4          \* steps of the child before it exits
StderrCapacity == 2     \* chunks the pipe and the reader's buffer take unread

ChildSteps == {"out", "err", "close"}

\* what a child may do: write lines and chunks, close stdout at most once and
\* write no line after that
IsScript(script) ==
    \A i \in DOMAIN script :
        script[i] = "close" =>
            \A j \in DOMAIN script : j > i => script[j] = "err"
ChildScripts ==
    {script \in UNION {[1..n -> ChildSteps] : n \in 0..MaxWrites} : IsScript(script)}

\* the child's next write to stderr cannot go through
ChildBlocked ==
    /\ sp_child = "running"
    /\ sp_ip <= Len(sp_script)
    /\ sp_script[sp_ip] = "err"
    /\ sp_stderr >= StderrCapacity

Pipe_ChildWriteStdout ==
    /\ sp_child = "running"
    /\ sp_ip <= Len(sp_script) /\ sp_script[sp_ip] = "out"
    /\ sp_stdout' = sp_stdout + 1
    /\ sp_ip' = sp_ip + 1
    /\ UNCHANGED <<sp_script, sp_child, sp_out_open, sp_stderr, sp_pc, sp_processed,
                   sp_outcome>>
    /\ UNCHANGED nonPipeVars

Pipe_ChildWriteStderr ==
    /\ sp_child = "running"
    /\ sp_ip <= Len(sp_script) /\ sp_script[sp_ip] = "err"
    /\ sp_stderr < StderrCapacity
    /\ sp_stderr' = sp_stderr + 1
    /\ sp_ip' = sp_ip + 1
    /\ UNCHANGED <<sp_script, sp_child, sp_out_open, sp_stdout, sp_pc, sp_processed,
                   sp_outcome>>
    /\ UNCHANGED nonPipeVars

Pipe_ChildCloseStdout ==
    /\ sp_child = "running"
    /\ sp_ip <= Len(sp_script) /\ sp_script[sp_ip] = "close"
    /\ sp_out_open' = FALSE
    /\ sp_ip' = sp_ip + 1
    /\ UNCHANGED <<sp_script, sp_child, sp_stdout, sp_stderr, sp_pc, sp_processed,
                   sp_outcome>>
    /\ UNCHANGED nonPipeVars

\* the child has done everything and exits with status 0
Pipe_ChildExit ==
    /\ sp_child = "running"
    /\ sp_ip > Len(sp_script)
    /\ sp_child' = "exited"
    /\ sp_out_open' = FALSE
    /\ UNCHANGED <<sp_script, sp_ip, sp_stdout, sp_stderr, sp_pc, sp_processed,
                   sp_outcome>>
    /\ UNCHANGED nonPipeVars

\* `line = await proc.stdout.readline()` returned a line
Pipe_ReadLine ==
    /\ sp_pc = "readline"
    /\ sp_stdout > 0
    /\ sp_stdout' = sp_stdout - 1
    /\ sp_processed' = sp_processed + 1
    /\ UNCHANGED <<sp_script, sp_ip, sp_child, sp_out_open, sp_stderr, sp_pc, sp_outcome>>
    /\ UNCHANGED nonPipeVars

\* readline() returned b"": `break`
Pipe_ReadEof ==
    /\ sp_pc = "readline"
    /\ sp_stdout = 0 /\ ~sp_out_open
    /\ sp_pc' = "wait"
    /\ UNCHANGED <<sp_script, sp_ip, sp_child, sp_out_open, sp_stdout, sp_stderr,
                   sp_processed, sp_outcome>>
    /\ UNCHANGED nonPipeVars

\* wait_for(proc.wait()) returned; the status is 0
Pipe_WaitDone ==
    /\ sp_pc = "wait"
    /\ sp_child = "exited"
    /\ sp_pc' = "done"
    /\ sp_outcome' = "completed"
    /\ UNCHANGED <<sp_script, sp_ip, sp_child, sp_out_open, sp_stdout, sp_stderr,
                   sp_processed>>
    /\ UNCHANGED nonPipeVars

\* the timeout of wait_for ends the wait for a child that cannot go on:
\* proc.kill(), CodexError("codex execution timed out"), the finally clause
Pipe_WaitTimeout ==
    /\ sp_pc = "wait"
    /\ ChildBlocked
    /\ sp_child' = "killed"
    /\ sp_pc' = "done"
    /\ sp_outcome' = "timed out"
    /\ UNCHANGED <<sp_script, sp_ip, sp_out_open, sp_stdout, sp_stderr, sp_processed>>
    /\ UNCHANGED nonPipeVars

InitPipes ==
    /\ FilterIdle /\ RunIdle /\ SseIdle /\ SanIdle /\ ListIdle /\ DiscIdle
    /\ CmdIdle /\ ChatIdle /\ ImgIdle
    /\ hide_reasoning = FALSE
    /\ sp_script \in ChildScripts
    /\ sp_ip = 1
    /\ sp_child = "running"
    /\ sp_out_open = TRUE
    /\ sp_stdout = 0
    /\ sp_stderr = 0
    /\ sp_pc = "readline"
    /\ sp_processed = 0
    /\ sp_outcome = "none"

NextPipes ==
    \/ Pipe_ChildWriteStdout
    \/ Pipe_ChildWriteStderr
    \/ Pipe_ChildCloseStdout
    \/ Pipe_ChildExit
    \/ Pipe_ReadLine
    \/ Pipe_ReadEof
    \/ Pipe_WaitDone
    \/ Pipe_WaitTimeout

SpecPipes == InitPipes /\ [][NextPipes]_vars

-----------------------------------------------------------------------------
(* Claims about the adapters (SpecRun, FairSpecRun) *)

TimedOut == Raised("CodexError", MsgTimedOut)

\* C1: stream mode: in every final state of run_codex after a successful launch
\* (normal completion, non-zero exit, timeout, the consumer closing the stream or
\* the task being cancelled) the child has been ended and its status collected.
C1_StreamChildReaped ==
    (mode = "stream" /\ pc = "done" /\ child # "none")
        => (child = "reaped" /\ returncode # NoCode)

\* the consumer closed the stream while the child ran: killed and reaped
C1_Witness ==
    /\ mode = "stream" /\ pc = "done"
    /\ outcome.kind = "GeneratorExit"
    /\ exitcode = Killed /\ returncode = Killed /\ child = "reaped"

\* C2: capture-to-file mode: once the call has raised 'timed out', the child is
\* not running.
C2_LastTimeoutKills ==
    (mode = "last" /\ pc = "done" /\ outcome = TimedOut) => child # "running"

\* C3: for a child that never exits on its own, each adapter eventually ends
\* with 'timed out' and the child is not running (unless the consumer itself
\* closed or cancelled the call).
C3_HangingChildTimesOut ==
    (hang /\ child = "running")
        ~> (pc = "done" /\ (\/ outcome.kind \in {"GeneratorExit", "CancelledError"}
                            \/ (outcome = TimedOut /\ child # "running")))

\* C4: in both adapters a launch failure is reported as CodexError and no
\* fragment or result text is produced.
C4_LaunchFailureIsCodexError ==
    (pc = "done" /\ outcome.launch)
        => (outcome.kind = "CodexError" /\ yielded = <<>> /\ result = <<>>)

\* C6: when the child exited on its own with a non-zero status and the adapter
\* got to see that status, the call ends with a CodexError whose message is the
\* child's stderr text (as written or trimmed), or the generic message when
\* stderr holds no text; it never ends normally.
C6_NonZeroExitFailure ==
    (/\ pc = "done"
     /\ exitcode \notin {NoCode, 0, Killed} /\ returncode = exitcode
     /\ outcome.kind \notin {"GeneratorExit", "CancelledError", "ProcessLookupError"}
     /\ outcome # TimedOut)
        => /\ outcome.kind = "CodexError"
           /\ \/ outcome.msg \in {stderr_data, StrStrip(stderr_data)} /\ outcome.msg # <<>>
              \/ StrStrip(stderr_data) = <<>> /\ outcome.msg = MsgFailed

\* C7: capture-to-file mode: once the call has returned or raised (success,
\* non-zero exit, timeout, launch failure), the temporary file does not exist,
\* unless its removal itself failed.
C7_TempFileRemoved ==
    (mode = "last" /\ pc = "done" /\ ~remove_failed /\ outcome.kind # "CancelledError")
        => ~file_exists

\* the fragment the filter makes of one line: the line with its line ending
\* normalised, or a bare newline for a blank line
FragmentOf(line, text) ==
    \/ text = StrRStrip(line, {"\r", "\n"}) \o <<"\n">>
    \/ (StrStrip(line) = <<>> /\ text = <<"\n">>)

\* C8: the fragments run_codex yields are an order-preserving image of the
\* child's stdout lines: each comes from one line already read, sources strictly
\* increase (no reordering, no duplicate), and while the generator is suspended
\* at a yield the fragment is that of the last line read.
C8_FragmentsInOrder ==
    mode = "stream" =>
        /\ \A n \in DOMAIN yielded :
             /\ yielded[n].src \in 1..nread
             /\ FragmentOf(stdout_all[yielded[n].src], yielded[n].text)
        /\ \A m, n \in DOMAIN yielded : m < n => yielded[m].src < yielded[n].src
        /\ pc = "yield" => (yielded # <<>> /\ yielded[Len(yielded)].src = nread)

\* two fragments, of the first and of the last of three lines, the line between
\* them dropped by the filter
C8_Witness ==
    /\ mode = "stream"
    /\ Len(stdout_all) = 3 /\ nread = 3
    /\ Len(yielded) = 2
    /\ yielded[1].src = 1 /\ yielded[2].src = 3
    /\ yielded[1].text # yielded[2].text

-----------------------------------------------------------------------------
(* Claim about the streaming endpoints (SpecSSE) *)

\* C5: a stream in which run_codex failed with CodexError carries an error
\* event and ends with the terminal marker.
C5_StreamErrorThenDone ==
    (sse_err /\ sse_pc \in {"end", "raised"})
        => /\ \E i \in DOMAIN sse_events : sse_events[i] \in {"response.error", "error"}
           /\ sse_events # <<>> /\ sse_events[Len(sse_events)] = "[DONE]"

-----------------------------------------------------------------------------
(* Claims about the line filter (SpecFilter) *)

W_thinking == <<"t","h","i","n","k","i","n","g">>
W_codex == <<"c","o","d","e","x">>

\* a raw line without its line ending and surrounding whitespace
Stripped(raw) == StrStrip(StrRStrip(raw, {"\r", "\n"}))

HasTimestamp(raw) == TimestampMatch(Stripped(raw))

\* the text of a line after its leading timestamp, if it has one
LineBody(raw) ==
    IF HasTimestamp(raw)
    THEN StrStrip(SubSeq(Stripped(raw), TimestampLen + 1, Len(Stripped(raw))))
    ELSE Stripped(raw)

\* a timestamped line whose text starts with `word`
TimestampedWord(raw, word) ==
    HasTimestamp(raw) /\ StartsWith(StrLower(LineBody(raw)), word)

\* line i lies in a reasoning block: from a timestamped 'thinking' line up to
\* and including the next timestamped 'codex' line
InReasoningBlock(hist, i) ==
    \E j \in 1..i :
        /\ TimestampedWord(hist[j], W_thinking)
        /\ \A k \in (j + 1)..(i - 1) : ~TimestampedWord(hist[k], W_codex)

\* no instructions echo has been opened up to line i
NoEchoUpTo(hist, i) ==
    \A j \in 1..i :
        LET normalized == _strip_leading_symbols(StrLower(LineBody(hist[j])))
        IN  ~StartsWith(normalized, P_user_instructions) /\ ~StartsWith(normalized, P_user)

\* the text after the timestamp is content: no metadata, no label
PlainBody(raw) ==
    /\ LineBody(raw) # <<>>
    /\ ~_is_metadata_line(LineBody(raw))
    /\ ~StartsWith(StrLower(LineBody(raw)), P_assistant)
    /\ ~StartsWith(StrLower(LineBody(raw)), W_codex)

EmittedAs(i, text) == \E n \in DOMAIN f_out : f_out[n] = [src |-> i, text |-> text]

Texts(out) == [n \in DOMAIN out |-> out[n].text]

\* C9: with reasoning hidden no line of a reasoning block is emitted, and of
\* SAMPLE_LINES only the blank line and the answer after 'codex' are emitted.
C9_HiddenReasoningDropped ==
    hide_reasoning =>
        /\ \A n \in DOMAIN f_out : ~InReasoningBlock(f_hist, f_out[n].src)
        /\ f_hist = SAMPLE_LINES => Texts(f_out) = <<L_blank, L_final>>

\* C10: a timestamped line that carries content is emitted with only its
\* timestamp removed, and with reasoning exposed the 'thinking' line and the
\* lines of the reasoning block are emitted, verbatim apart from the timestamp.
C10_TimestampOnlyStripped ==
    \A i \in DOMAIN f_hist :
        NoEchoUpTo(f_hist, i) =>
            /\ (/\ HasTimestamp(f_hist[i]) /\ PlainBody(f_hist[i])
                /\ (hide_reasoning => ~InReasoningBlock(f_hist, i)))
                   => EmittedAs(i, LineBody(f_hist[i]) \o <<"\n">>)
            /\ (/\ ~hide_reasoning /\ InReasoningBlock(f_hist, i)
                /\ ~TimestampedWord(f_hist[i], W_codex)
                /\ ~_is_metadata_line(LineBody(f_hist[i])))
                   => EmittedAs(i, LineBody(f_hist[i]) \o <<"\n">>)

-----------------------------------------------------------------------------
(* Claims about the whole-text filter (SpecSanitize) *)

\* C11: the whole-text filter is idempotent: applying _sanitize_codex_text to
\* its own result returns that result unchanged.
C11_SanitizeIdempotent ==
    san_pc = "twice" => san_twice = san_once

\* a text of several lines that the filter changed, with a blank line kept
\* inside the result
C11_Witness ==
    /\ san_pc = "twice"
    /\ san_once # san_in
    /\ \E i \in 1..(Len(san_once) - 1) : san_once[i] = "\n" /\ san_once[i + 1] = "\n"
    /\ san_twice = san_once

-----------------------------------------------------------------------------
(* Claims about the listing parsers and the catalog (SpecListing) *)

\* the variant strings of a JSON entry, field by field
EntryVariants(d) ==
    _iter_variant_strings(Get(d, "deployment")) \o _iter_variant_strings(Get(d, "variant"))
    \o _iter_variant_strings(Get(d, "deployments")) \o _iter_variant_strings(Get(d, "variants"))

\* a JSON entry as its base id and its variant strings
JsonEntry(item) ==
    IF item.t = "str"
    THEN [base |-> IF StrStrip(item.s) # <<>> THEN StrStrip(item.s) ELSE NoneStr,
          variants |-> <<>>]
    ELSE IF item.t = "dict"
    THEN [base |-> _first_non_empty_string(item.d, <<"id", "model", "name", "slug">>),
          variants |-> EntryVariants(item.d)]
    ELSE [base |-> NoneStr, variants |-> <<>>]

\* a line of a plaintext listing is an entry unless it is blank or a heading
IsEntryLine(line) ==
    /\ StrSplit(line) # <<>>
    /\ ~StartsWith(StrLower(StrStrip(line)), S_available_models)
    /\ StrLower(StrSplit(line)[1]) \notin HeaderTokens

LineEntry(line) == [base |-> StrSplit(line)[1], variants |-> Tail(StrSplit(line))]

\* the entries of the listing that was parsed
ListingEntries ==
    IF lst_kind = "text"
    THEN LET lines == SelectSeq(SplitLines(lst_text), IsEntryLine)
         IN  [i \in 1..Len(lines) |-> LineEntry(lines[i])]
    ELSE [i \in 1..Len(lst_items) |-> JsonEntry(lst_items[i])]

\* id is the base of entry e, or the alias of one of its variants that
\* normalizes to a string containing "codex"
Justifies(e, id) ==
    \/ e.base # NoneStr /\ id = e.base
    \/ \E k \in DOMAIN e.variants :
         LET nv == NormalizeVariant(e.variants[k])
         IN  /\ Contains(nv, S_codex)
             /\ id = IF e.base = NoneStr THEN nv ELSE e.base \o S_dash \o nv

\* every variant of the entry is "default"
OnlyDefault(e) ==
    /\ e.base # NoneStr
    /\ e.variants # <<>>
    /\ \A k \in DOMAIN e.variants : NormalizeVariant(e.variants[k]) = <<"d","e","f","a","u","l","t">>

\* C19: for every entry of a JSON or plaintext listing the base id is in the
\* result; every identifier of the result is a base id or the alias of a
\* variant that normalizes to a string containing "codex"; an entry whose
\* only deployment is "default" contributes no "-codex" alias.
C19_AliasOnlyForCodexVariants ==
    (lst_pc \in {"parsed", "augmented"} /\ lst_kind \in JsonKinds \cup {"text"}) =>
        LET entries == ListingEntries
        IN  /\ \A i \in DOMAIN entries :
                 entries[i].base # NoneStr => entries[i].base \in Range(lst_models)
            /\ \A id \in Range(lst_models) :
                 \E i \in DOMAIN entries : Justifies(entries[i], id)
            /\ \A i \in DOMAIN entries :
                 (OnlyDefault(entries[i])
                    /\ (entries[i].base \o S_dash_codex) \in Range(lst_models))
                 => \E j \in DOMAIN entries \ {i} :
                        Justifies(entries[j], entries[i].base \o S_dash_codex)

\* the listing of the specification's example: gpt-5 deployed as codex and
\* o4-mini deployed as default
C19_Witness ==
    /\ lst_pc = "parsed"
    /\ lst_kind = "data"
    /\ lst_items = <<E_gpt5, E_o4>>
    /\ lst_models = <<<<"g","p","t","-","5">>, <<"g","p","t","-","5","-","c","o","d","e","x">>, <<"o","4","-","m","i","n","i">>>>

\* no value occurs twice
NoDuplicates(s) == \A i, j \in DOMAIN s : s[i] = s[j] => i = j

\* index of the first occurrence of x in cand
FirstIndex(cand, x) ==
    CHOOSE k \in DOMAIN cand : cand[k] = x /\ \A m \in 1..(k - 1) : cand[m] # x

\* res holds the values of cand, in the order in which cand first has them
InFirstSeenOrder(res, cand) ==
    /\ Range(res) = Range(cand)
    /\ \A i, j \in DOMAIN res :
         i < j => FirstIndex(cand, res[i]) < FirstIndex(cand, res[j])

\* the identifiers the parser collected before deduplication
ParseCandidates ==
    IF lst_kind = "config" THEN ConfigAugmented(ConfigData)
    ELSE IF ListingItems(ListingDoc.json).some
    THEN ParsedItems(ListingItems(ListingDoc.json).items)
    ELSE ParsedLines(SplitLines(ListingDoc.raw))

\* each model followed by the base it has when it ends with "-codex"
RECURSIVE WithCodexBases(_)
WithCodexBases(models) ==
    IF models = <<>> THEN <<>>
    ELSE LET model == Head(models)
         IN  <<model>>
             \o (IF EndsWith(model, S_dash_codex) /\ Len(model) > 6
                 THEN <<SubSeq(model, 1, Len(model) - 6)>> ELSE <<>>)
             \o WithCodexBases(Tail(models))

\* C20: the catalog produced by the listing parsers and by the alias synthesis
\* holds no identifier twice and no empty identifier, and its identifiers
\* are in first-seen order.
C20_CatalogDedupedInOrder ==
    /\ lst_pc \in {"parsed", "augmented"} =>
         /\ NoDuplicates(lst_models)
         /\ <<>> \notin Range(lst_models)
         /\ InFirstSeenOrder(lst_models, ParseCandidates)
    /\ lst_pc = "augmented" =>
         /\ NoDuplicates(lst_catalog)
         /\ <<>> \notin Range(lst_catalog)
         /\ InFirstSeenOrder(lst_catalog,
                WithCodexBases(IF lst_models # <<>> THEN lst_models
                               ELSE <<DEFAULT_MODEL>>))

\* a listing that names an identifier twice, out of adjacent order, and whose
\* catalog gains a base stripped of "-codex"
C20_Witness ==
    /\ lst_pc = "augmented"
    /\ Len(ParseCandidates) > Len(lst_models)
    /\ Len(lst_models) >= 3
    /\ \E i, j \in DOMAIN ParseCandidates :
         j > i + 1 /\ ParseCandidates[i] = ParseCandidates[j]
    /\ Len(lst_catalog) > Len(lst_models)

-----------------------------------------------------------------------------
(* Claims about model discovery (SpecDiscovery, SpecProbe, FairSpecProbe) *)

\* the order in which the strategies are to be tried
StrategyOrder ==
    <<"models list --json", "models --json", "models list", "models", "proto",
      "config.toml">>

\* C12: the strategies are attempted in the order 'models list --json',
\* 'models --json', 'models list', 'models', proto probe, config file; a
\* strategy is attempted only after every earlier one yielded no models, and
\* a returned catalog is the non-empty yield of the strategy attempted last.
C12_StrategiesInOrder ==
    /\ Len(disc_tried) <= Len(StrategyOrder)
    /\ disc_tried = SubSeq(StrategyOrder, 1, Len(disc_tried))
    /\ Len(disc_yields) <= Len(disc_tried)
    /\ \A i \in 1..Len(disc_tried) :
         i < Len(disc_tried) => i <= Len(disc_yields) /\ disc_yields[i] = <<>>
    /\ disc_out.kind = "return" =>
         /\ disc_out.models # <<>>
         /\ Len(disc_yields) = Len(disc_tried)
         /\ disc_out.models = disc_yields[Len(disc_yields)]

\* the config file yields the catalog after the five strategies before it
\* yielded nothing
C12_Witness ==
    /\ disc_pc = "done"
    /\ disc_out.kind = "return"
    /\ disc_tried = StrategyOrder
    /\ disc_errors[5].reason = "no models returned"

\* every strategy was attempted and left its reason, in attempt order
AllStrategiesReported ==
    /\ disc_tried = StrategyOrder
    /\ Len(disc_errors) = Len(StrategyOrder)
    /\ \A i \in 1..Len(StrategyOrder) : disc_errors[i].strategy = StrategyOrder[i]
    /\ disc_out.detail = disc_errors

C15_ProbeCleansUp ==
    pr_pc = "done" /\ pr_child # "none" =>
        /\ Len(pr_cleanup) >= 2
        /\ pr_cleanup[1] = "shutdown"
        /\ pr_cleanup[2] = "close"
        /\ SubSeq(pr_cleanup, 3, Len(pr_cleanup))
             \in {<<>>, <<"reaped">>, <<"kill">>, <<"kill", "reaped">>}
        /\ pr_child = "reaped"
        /\ pr_returncode # NoCode

\* the read timed out and the child outlived the shutdown wait
C15_Witness ==
    /\ pr_pc = "done"
    /\ pr_out.kind = "CodexError"
    /\ pr_cleanup = <<"shutdown", "close", "kill", "reaped">>

\* C16: the probe terminates for every behaviour of the child.
C16_ProbeTerminates == <>(pr_pc = "done")

-----------------------------------------------------------------------------
(* Claims about the model registry (SpecRegistry) *)

\* discovery ended without a catalog
DiscoveryFailed == disc_out.kind # "return" \/ disc_out.models = <<>>

\* C14: the catalog is never empty; after a run of initialize_model_registry
\* whose discovery failed or returned nothing the catalog is exactly the
\* default model, and the run returned the catalog instead of raising.
C14_FallbackToDefault ==
    /\ AvailableModels # <<>>
    /\ reg_pc = "done" /\ disc_pc = "done" =>
         /\ reg_out.kind = "return"
         /\ reg_out.models = AvailableModels
         /\ DiscoveryFailed => AvailableModels = <<DEFAULT_MODEL>>

\* a refresh fails after the first run had discovered models
C14_Witness ==
    /\ reg_pc = "done" /\ disc_pc = "done"
    /\ disc_out.kind = "UnicodeDecodeError"
    /\ Len(reg_history) = 3
    /\ Len(reg_history[2]) > 1
    /\ AvailableModels = <<DEFAULT_MODEL>>

\* C17: what a reader gets is made of one whole catalog that was published,
\* never of an empty or half-built list, and no list once published is
\* changed afterwards.
C17_ReadersSeeWholeCatalog ==
    /\ Len(heap) = Len(reg_history)
    /\ \A i \in 1..Len(heap) : heap[i] = reg_history[i] /\ heap[i] # <<>>
    /\ rd.call = "get_available_models" =>
         /\ rd.list # <<>>
         /\ \E h \in Range(reg_history) : rd.list \in {h, h \o EffortAliases(h)}
    /\ rd.call = "get_default_model" =>
         \E h \in Range(reg_history) : rd.model = h[1]
    /\ rd.call = "choose_model" =>
         /\ rd.before \in Range(reg_history)
         /\ rd.after = rd.before
         /\ rd.kind = "model" => rd.model \in Range(rd.before)

\* a reader got the catalog of the first run while the second run was at its
\* discovery, and the second run has replaced the catalog since
C17_Witness ==
    /\ Len(reg_history) = 3
    /\ rd.call = "get_available_models"
    /\ rd.list = reg_history[2]
    /\ reg_history[3] # reg_history[2]
    /\ AvailableModels = reg_history[3]

\* `name` ends in " <effort>"
C18_HasEffort(name, effort) ==
    /\ Len(name) > Len(effort) + 1
    /\ SubSeq(name, Len(name) - Len(effort), Len(name)) = <<" ">> \o effort
C18_Stem(name, effort) == SubSeq(name, 1, Len(name) - Len(effort) - 1)
C18_Efforts == {<<"m","i","n","i","m","a","l">>, <<"l","o","w">>, <<"m","e","d","i","u","m">>, <<"h","i","g","h">>}
C18_Base(name) ==
    IF \E e \in C18_Efforts : C18_HasEffort(name, e)
    THEN C18_Stem(name, CHOOSE e \in C18_Efforts : C18_HasEffort(name, e))
    ELSE name

\* C18: choose_model on "<model> <effort>" with <model> in the catalog
\* returns (<model>, <effort>); on a catalog name without effort suffix it
\* returns (name, no effort); a name whose base is not a catalog entry is
\* rejected with an error listing the catalog and its effort aliases; the
\* catalog is left as it was.
C18_ChooseModel ==
    rd.call = "choose_model" /\ rd.requested # <<>> =>
        LET name == rd.requested
            catalog == Range(rd.before)
        IN  /\ rd.after = rd.before
            /\ \A e \in C18_Efforts :
                 C18_HasEffort(name, e) /\ C18_Stem(name, e) \in catalog =>
                    rd.kind = "model" /\ rd.model = C18_Stem(name, e) /\ rd.effort = e
            /\ name \in catalog /\ C18_Base(name) = name =>
                 rd.kind = "model" /\ rd.model = name /\ rd.effort = NoneStr
            /\ C18_Base(name) \notin catalog /\ JoinSpace(StrSplit(name)) = name =>
                 rd.kind = "ValueError"
            /\ rd.kind = "ValueError" =>
                 Range(rd.list) =
                    catalog \cup {m \o <<" ">> \o e : m \in catalog, e \in C18_Efforts}

\* a catalog name with a space in it, asked for with an effort
C18_Witness ==
    /\ rd.call = "choose_model"
    /\ rd.requested = <<"l","o","c","a","l"," ","m","o","d","e","l"," ","m","e","d","i","u","m">>
    /\ rd.kind = "model"
    /\ rd.model = <<"l","o","c","a","l"," ","m","o","d","e","l">>
    /\ rd.effort = <<"m","e","d","i","u","m">>

\* an unknown name is rejected
C18_WitnessRejected ==
    /\ rd.call = "choose_model"
    /\ rd.requested = <<"g","p","t","-","5"," ","t","u","r","b","o">>
    /\ rd.kind = "ValueError"
    /\ Len(rd.list) = 5 * Len(rd.before)

-----------------------------------------------------------------------------
(* Claims about the command line (SpecCmd) *)

\* a command was built; the tokens of it that begin with `prefix`
CmdBuilt == bc_pc = "done" /\ bc_out.kind = "return"
CmdTokens(prefix) ==
    {i \in DOMAIN bc_out.cmd : StartsWith(bc_out.cmd[i], prefix)}

\* the sandbox mode in force: the override if given, else the default
C21_EffectiveSandbox ==
    IF \E i \in DOMAIN bc_overrides :
          bc_overrides[i].k = <<"s","a","n","d","b","o","x">> /\ bc_overrides[i].v.t = "str"
    THEN bc_overrides[CHOOSE i \in DOMAIN bc_overrides :
                         bc_overrides[i].k = <<"s","a","n","d","b","o","x">>].v.s
    ELSE sandbox_mode

\* C21: a built command holds a sandbox_workspace_write flag only if the
\* sandbox mode in force is workspace-write, and never a flag of its own for
\* network_access.
C21_NetworkFlagOnlyWhenWritable ==
    CmdBuilt =>
        /\ CmdTokens(<<"s","a","n","d","b","o","x","_","w","o","r","k","s","p","a","c","e","_","w","r","i","t","e">>) # {} =>
              C21_EffectiveSandbox = <<"w","o","r","k","s","p","a","c","e","-","w","r","i","t","e">>
        /\ CmdTokens(<<"n","e","t","w","o","r","k","_","a","c","c","e","s","s">>) = {}

\* the override turns a read-only default into workspace-write with network
C21_Witness ==
    /\ CmdBuilt
    /\ sandbox_mode = <<"r","e","a","d","-","o","n","l","y">>
    /\ ~workspace_network_access
    /\ \E i \in DOMAIN bc_out.cmd :
         bc_out.cmd[i] = <<"s","a","n","d","b","o","x","_","w","o","r","k","s","p","a","c","e","_","w","r","i","t","e","=","{"," ","n","e","t","w","o","r","k","_","a","c","c","e","s","s"," ","="," ","t","r","u","e"," ","}">>

\* the values of hide_agent_reasoning the overrides ask for
C22_Asked ==
    {IF bc_overrides[i].k = <<"e","x","p","o","s","e","_","r","e","a","s","o","n","i","n","g">> THEN ~bc_overrides[i].v.b
                                                ELSE bc_overrides[i].v.b :
        i \in {j \in DOMAIN bc_overrides :
                 /\ bc_overrides[j].k \in {<<"h","i","d","e","_","r","e","a","s","o","n","i","n","g">>, <<"h","i","d","e","_","a","g","e","n","t","_","r","e","a","s","o","n","i","n","g">>,
                                           <<"e","x","p","o","s","e","_","r","e","a","s","o","n","i","n","g">>}
                 /\ bc_overrides[j].v.t = "bool"}}

C23_NoFlagWhenExposed ==
    CmdBuilt /\ bc_overrides = <<>> =>
        /\ hide_reasoning =>
             \E i \in DOMAIN bc_out.cmd : bc_out.cmd[i] = <<"h","i","d","e","_","a","g","e","n","t","_","r","e","a","s","o","n","i","n","g","=","t","r","u","e">>
        /\ ~hide_reasoning => CmdTokens(<<"h","i","d","e","_","a","g","e","n","t","_","r","e","a","s","o","n","i","n","g","=">>) = {}

-----------------------------------------------------------------------------
(* Claims about chat completions (SpecChat) *)

ChatAnswered == ch_pc = "end" /\ ch_raised = "none"

\* the response carries a function_call: in the message, or in a chunk
CarriesFunctionCall ==
    \/ ch_message.function_call # NoCall
    \/ \E i \in DOMAIN ch_events : ch_events[i].function_call # NoCall

\* the finish reasons the client is told (a null finish_reason tells none)
FinishReasons ==
    IF ch_stream
    THEN {ch_events[i].finish_reason : i \in DOMAIN ch_events} \ {"null", "absent", "[DONE]"}
    ELSE {ch_finish} \ {"unset"}

ContentChars(content) == IF content.t = "str" THEN content.s ELSE <<>>

\* the content the client receives, the deltas of a stream put together
ResponseContent ==
    IF ch_stream
    THEN Concat([i \in DOMAIN ch_events |-> ContentChars(ch_events[i].content)])
    ELSE ContentChars(ch_message.content)

\* C24: a chat completion, streamed or not, carries a function_call (and then
\* finish_reason 'function_call') only when the request defined functions, did
\* not send function_call='none' and the output parses as a function-call
\* payload; with function_call='none' an answered request carries no
\* function_call, has finish_reason 'stop' and the raw output as its content.
C24_FunctionCallOnlyWhenAsked ==
    /\ CarriesFunctionCall =>
          /\ ch_functions
          /\ ch_function_call # "none"
          /\ extract_function_call_payload(OutputText(ch_output)).call # NoCall
    /\ (ChatAnswered /\ CarriesFunctionCall) => FinishReasons = {"function_call"}
    /\ (ChatAnswered /\ ch_function_call = "none") =>
          /\ ~CarriesFunctionCall
          /\ FinishReasons = {"stop"}
          /\ ResponseContent = Concat(ch_output.frags)
          /\ ~ch_stream => ch_message.content.t = "str"

-----------------------------------------------------------------------------
(* Claims about the source of the last message (SpecRun) *)

\* the text open(out_path).read() gave: nothing when the read raised
CapturedText == IF file_exists /\ ~read_failed THEN DecodeIgnore(file_text) ELSE <<>>

LastMessageReturned == mode = "last" /\ pc = "finally" /\ outcome = Returned

\* what is returned for a text: its sanitized form, or the stripped text
SanitizedOrStripped(text) ==
    IF _sanitize_codex_text(text) # <<>> THEN _sanitize_codex_text(text) ELSE StrStrip(text)

\* C25: capture-to-file mode, exit status zero: the returned text is made from
\* the captured file when reading it gave a non-empty text, and from the
\* child's stdout when the file is empty, missing or could not be read.
C25_TextSource ==
    LastMessageReturned =>
        /\ returncode = 0
        /\ CapturedText # <<>> => result = SanitizedOrStripped(CapturedText)
        /\ CapturedText = <<>> =>
              result = SanitizedOrStripped(DecodeIgnore(Concat(stdout_all)))

\* the file was read and wins over a different, non-empty stdout
C25_Witness ==
    /\ LastMessageReturned
    /\ CapturedText # <<>>
    /\ result = SanitizedOrStripped(CapturedText)
    /\ result # <<>>
    /\ SanitizedOrStripped(DecodeIgnore(Concat(stdout_all))) \notin {<<>>, result}

\* the file has a text but reading it raised: stdout is returned
C25_WitnessFallback ==
    /\ LastMessageReturned
    /\ file_exists /\ file_text # <<>> /\ read_failed
    /\ result # <<>>
    /\ result = SanitizedOrStripped(DecodeIgnore(Concat(stdout_all)))

-----------------------------------------------------------------------------
(* Claims about the line filter's states (SpecFilter) *)

\* the filter has just handled one more line
LineHandled == Len(f_hist') = Len(f_hist) + 1
HandledLine == f_hist'[Len(f_hist')]

\* a raw line as the filter looks at it: line ending and outer blanks removed
LineText(raw) == StrStrip(StrRStrip(raw, {"\r", "\n"}))
Timestamped(raw) == TimestampMatch(LineText(raw))

\* the text after a leading timestamp, lower-cased
AfterTimestamp(raw) ==
    IF Timestamped(raw)
    THEN StrLower(StrStrip(SubSeq(LineText(raw), TimestampLen + 1, Len(LineText(raw)))))
    ELSE StrLower(LineText(raw))

BeginsEcho(raw) ==
    \/ StartsWith(AfterTimestamp(raw), P_user_instructions)
    \/ StartsWith(AfterTimestamp(raw), P_user)

\* C26: while the filter suppresses an instructions echo it stays suppressing
\* until a timestamped line is handled, and every timestamped line (other than
\* one that itself opens an echo) ends the echo block.
C26_EchoEndsAtTimestamp ==
    [][(LineHandled /\ f_filter.in_user_block /\ ~BeginsEcho(HandledLine)) =>
          (f_filter'.in_user_block <=> ~Timestamped(HandledLine))]_vars

\* C27: a line that after timestamp stripping, case-insensitively, begins with
\* 'user instructions:' or 'user:' puts the filter into the echo state and is
\* dropped; a line handled in the echo state makes process() return nothing.
C27_EchoEntered ==
    [][LineHandled =>
          /\ BeginsEcho(HandledLine) => (f_filter'.in_user_block /\ f_out' = f_out)
          /\ f_filter.in_user_block => f_out' = f_out]_vars

\* content was emitted, a timestamped 'User:' line opened the echo, and the
\* content line that followed was dropped
C27_Witness ==
    /\ f_hist = <<L_final, L_ts_user, L_first>>
    /\ f_filter.in_user_block
    /\ Texts(f_out) = <<L_final>>

BlankLine(raw) == LineText(raw) = <<>>
ContentEmitted(out) == \E n \in DOMAIN out : out[n].text # <<"\n">>

AssistantRemainder(raw) ==
    StrStrip(SubSeq(LineText(raw), Len(P_assistant_colon) + 1, Len(LineText(raw))))

\* C29: outside the echo block a line beginning with the label 'assistant:' is
\* emitted without the label, and dropped only when nothing follows the label.
C29_AssistantLabelStripped ==
    [][(/\ LineHandled
        /\ ~f_filter.in_user_block
        /\ StartsWith(StrLower(LineText(HandledLine)), P_assistant_colon)) =>
          IF AssistantRemainder(HandledLine) = <<>>
          THEN f_out' = f_out
          ELSE /\ Len(f_out') = Len(f_out) + 1
               /\ StrStrip(f_out'[Len(f_out')].text) = AssistantRemainder(HandledLine)]_vars

\* the prefixes of rule 6: those of the table that do not open an echo
MetadataPrefixes == _KNOWN_METADATA_PREFIXES \ {P_user_instructions, P_user}

BeginsMetadata(raw) ==
    \E prefix \in MetadataPrefixes :
        StartsWith(SubSeq(StrLower(LineText(raw)), FirstAlnum(StrLower(LineText(raw)), 1),
                          Len(LineText(raw))), prefix)

\* C30: in the normal state a line that, leading symbols skipped and case
\* ignored, begins with a metadata prefix is not emitted and leaves the echo
\* flag and the has-emitted flag as they were.
C30_MetadataDropped ==
    [][(LineHandled /\ ~f_filter.in_user_block /\ BeginsMetadata(HandledLine)) =>
          /\ f_out' = f_out
          /\ f_filter'.in_user_block = f_filter.in_user_block
          /\ f_filter'.emitted_any = f_filter.emitted_any]_vars

\* metadata lines with leading symbols after content: nothing more is emitted
C30_Witness ==
    /\ f_hist = <<L_final, L_tokens, L_sym_model>>
    /\ Texts(f_out) = <<L_final>>
    /\ f_filter = [saw_assistant |-> TRUE, emitted_any |-> TRUE, in_user_block |-> FALSE]

-----------------------------------------------------------------------------
(* Claims about words that look like reasoning markers (SpecFilter) *)

\* a line without a timestamp whose text starts with the word 'thinking'
StartsWithThinking(raw) ==
    /\ ~Timestamped(raw)
    /\ StartsWith(StrLower(LineText(raw)), <<"t","h","i","n","k","i","n","g">>)

\* the filter after an ordinary content line
AfterContentLine(self) == Process(self, L_final).st

\* C31: with reasoning hidden, a line without a timestamp that starts with the
\* word 'thinking' and is handled outside an instructions echo is emitted as
\* content, and the filter treats every following line as it does after any
\* other content line: no suppression starts.
C31_ThinkingWordIsContent ==
    [][(/\ LineHandled /\ hide_reasoning
        /\ ~f_filter.in_user_block
        /\ StartsWithThinking(HandledLine)) =>
          /\ f_out' = Append(f_out, [src |-> Len(f_hist'),
                                     text |-> StrRStrip(HandledLine, {"\r", "\n"}) \o <<"\n">>])
          /\ \A next \in FilterPool :
                Process(f_filter', next) = Process(AfterContentLine(f_filter), next)]_vars

\* the word line is emitted and so are the blank line and the answer after it
C31_Witness ==
    /\ hide_reasoning
    /\ f_hist = <<L_thinking_about, L_blank, L_final>>
    /\ Texts(f_out) = <<L_thinking_about, <<"\n">>, L_final>>

-----------------------------------------------------------------------------
(* Claims about overrides and the shape of the command (SpecCmd) *)

\* the value given for network_access in the overrides, None if there is none
NetworkOverride ==
    IF \E i \in DOMAIN bc_overrides : bc_overrides[i].k = <<"n","e","t","w","o","r","k","_","a","c","c","e","s","s">>
    THEN bc_overrides[CHOOSE i \in DOMAIN bc_overrides : bc_overrides[i].k = <<"n","e","t","w","o","r","k","_","a","c","c","e","s","s">>].v
    ELSE [t |-> "none"]

NetworkFlagTrue == <<"s","a","n","d","b","o","x","_","w","o","r","k","s","p","a","c","e","_","w","r","i","t","e","=","{"," ","n","e","t","w","o","r","k","_","a","c","c","e","s","s"," ","="," ","t","r","u","e"," ","}">>
NetworkFlagFalse == <<"s","a","n","d","b","o","x","_","w","o","r","k","s","p","a","c","e","_","w","r","i","t","e","=","{"," ","n","e","t","w","o","r","k","_","a","c","c","e","s","s"," ","="," ","f","a","l","s","e"," ","}">>
NetworkFlags == CmdTokens(<<"s","a","n","d","b","o","x","_","w","o","r","k","s","p","a","c","e","_","w","r","i","t","e">>)

\* the command holds the one network flag `flag`, after a --config
OnlyNetworkFlag(flag) ==
    /\ Cardinality(NetworkFlags) = 1
    /\ \A i \in NetworkFlags : bc_out.cmd[i] = flag /\ bc_out.cmd[i - 1] = <<"-","-","c","o","n","f","i","g">>

\* C32: sandbox mode in force 'workspace-write': a network_access override that
\* is not None gives the network flag with the override's boolean, false
\* included; without one the flag is written with true when the default toggle
\* is on and is left out when it is off.
C32_NetworkFlagValue ==
    (CmdBuilt /\ C21_EffectiveSandbox = <<"w","o","r","k","s","p","a","c","e","-","w","r","i","t","e">>) =>
        /\ NetworkOverride = [t |-> "bool", b |-> TRUE] => OnlyNetworkFlag(NetworkFlagTrue)
        /\ NetworkOverride = [t |-> "bool", b |-> FALSE] => OnlyNetworkFlag(NetworkFlagFalse)
        /\ (NetworkOverride.t = "none" /\ workspace_network_access) =>
              OnlyNetworkFlag(NetworkFlagTrue)
        /\ (NetworkOverride.t = "none" /\ ~workspace_network_access) => NetworkFlags = {}

\* the override says false while the default toggle is on: the flag says false
C32_Witness ==
    /\ CmdBuilt
    /\ C21_EffectiveSandbox = <<"w","o","r","k","s","p","a","c","e","-","w","r","i","t","e">>
    /\ workspace_network_access
    /\ NetworkOverride = [t |-> "bool", b |-> FALSE]
    /\ OnlyNetworkFlag(NetworkFlagFalse)

\* the config key an override key stands for, and the value it asks for
TargetOf(key) ==
    IF key = <<"s","a","n","d","b","o","x">> THEN <<"s","a","n","d","b","o","x","_","m","o","d","e">>
    ELSE IF key = <<"r","e","a","s","o","n","i","n","g","_","e","f","f","o","r","t">> THEN <<"m","o","d","e","l","_","r","e","a","s","o","n","i","n","g","_","e","f","f","o","r","t">>
    ELSE IF key \in {<<"h","i","d","e","_","r","e","a","s","o","n","i","n","g">>, <<"e","x","p","o","s","e","_","r","e","a","s","o","n","i","n","g">>} THEN <<"h","i","d","e","_","a","g","e","n","t","_","r","e","a","s","o","n","i","n","g">>
    ELSE key
AskedValue(item) ==
    IF item.k = <<"e","x","p","o","s","e","_","r","e","a","s","o","n","i","n","g">> THEN [t |-> "bool", b |-> ~item.v.b]
    ELSE item.v

\* the values the overrides that are not None ask for a config key
Asked(target) ==
    {AskedValue(bc_overrides[i]) :
        i \in {j \in DOMAIN bc_overrides :
                 bc_overrides[j].v.t # "none" /\ TargetOf(bc_overrides[j].k) = target}}

DefaultOf(target) ==
    IF target = <<"s","a","n","d","b","o","x","_","m","o","d","e">> THEN [t |-> "str", s |-> sandbox_mode]
    ELSE IF target = <<"m","o","d","e","l","_","r","e","a","s","o","n","i","n","g","_","e","f","f","o","r","t">> THEN [t |-> "str", s |-> <<"m","e","d","i","u","m">>]
    ELSE [t |-> "bool", b |-> hide_reasoning]

\* the text of a --config argument
FlagText(target, value) ==
    IF value.t = "str" THEN target \o <<"=","\"">> \o value.s \o <<"\"">>
    ELSE target \o (IF value.b THEN <<"=","t","r","u","e">> ELSE <<"=","f","a","l","s","e">>)

FlagsOf(target) == {bc_out.cmd[i] : i \in CmdTokens(target \o <<"=">>)}

DefaultedKeys == {<<"s","a","n","d","b","o","x","_","m","o","d","e">>, <<"m","o","d","e","l","_","r","e","a","s","o","n","i","n","g","_","e","f","f","o","r","t">>, <<"h","i","d","e","_","a","g","e","n","t","_","r","e","a","s","o","n","i","n","g">>}

\* a config key carries the one value asked for it, else its default
KeysFollowOverrides ==
    \A target \in DefaultedKeys :
        /\ Asked(target) = {} => FlagsOf(target) = {FlagText(target, DefaultOf(target))}
        /\ \A value \in Asked(target) :
              Asked(target) = {value} => FlagsOf(target) = {FlagText(target, value)}

\* without a network_access override the default toggle decides
NetworkDefaultInEffect ==
    NetworkOverride.t = "none" =>
        IF C21_EffectiveSandbox = <<"w","o","r","k","s","p","a","c","e","-","w","r","i","t","e">> /\ workspace_network_access
        THEN OnlyNetworkFlag(NetworkFlagTrue)
        ELSE NetworkFlags = {}

NetworkFlagOf(value) == IF value.b THEN NetworkFlagTrue ELSE NetworkFlagFalse

RECURSIVE AddedKeys(_, _)
AddedKeys(items, seen) ==
    IF items = <<>> THEN <<>>
    ELSE LET key == TargetOf(Head(items).k)
         IN  IF Head(items).v.t = "none" \/ key \in seen \/ key = <<"n","e","t","w","o","r","k","_","a","c","c","e","s","s">>
             THEN AddedKeys(Tail(items), seen)
             ELSE <<key>> \o AddedKeys(Tail(items), seen \cup {key})
WrittenKeys ==
    <<<<"s","a","n","d","b","o","x","_","m","o","d","e">>, <<"m","o","d","e","l","_","r","e","a","s","o","n","i","n","g","_","e","f","f","o","r","t">>, <<"h","i","d","e","_","a","g","e","n","t","_","r","e","a","s","o","n","i","n","g">>>>
        \o AddedKeys(bc_overrides, DefaultedKeys)

ModelGiven == bc_model # <<"None">> /\ bc_model # <<>>

\* where the parts of the vector start
ImagesEnd == 5 + 2 * Len(bc_images)
ConfigEnd == ImagesEnd + 2 * Len(WrittenKeys)
ModelEnd == ConfigEnd + (IF ModelGiven THEN 2 ELSE 0)

-----------------------------------------------------------------------------
(* Claims about image attachments (SpecImages) *)

\* C35: the temporary image files passed to the child are not deleted before
\* the child that receives them has finished, for streaming responses as for
\* non-streaming ones: while the child runs, every file it was given exists.
C35_ImagesOutliveChild ==
    im_child = "running" => Range(im_args) \subseteq im_exists

-----------------------------------------------------------------------------
(* Claims about the child's pipes (SpecPipes) *)

StdoutLines(script) == Cardinality({i \in DOMAIN script : script[i] = "out"})

CompletedNormally ==
    /\ sp_pc = "done"
    /\ sp_outcome = "completed"
    /\ sp_processed = StdoutLines(sp_script)

\* C36: stream mode, a child that writes a finite amount to stdout and stderr
\* and then exits with status 0: run_codex never raises 'timed out', and it
\* cannot come to rest before it has completed with every stdout line
\* processed, however much the child writes to stderr.
C36_StderrNeverBlocks ==
    /\ sp_outcome # "timed out"
    /\ CompletedNormally \/ ENABLED NextPipes

-----------------------------------------------------------------------------
(* Claims about the sandbox gate (SpecImages) *)

DangerAsked == im_endpoint = "chat" /\ im_sandbox = "danger-full-access"

\* C37: a chat-completions request whose sandbox override is
\* 'danger-full-access', while allow_danger_full_access is false, never has a
\* child launched (streaming or not), never had an image file saved and never
\* reached the command builder: it is answered with 400.
C37_DangerGate ==
    (DangerAsked /\ ~im_allow) =>
        /\ im_child = "none"
        /\ im_gen = "none"
        /\ im_args = <<>>
        /\ im_paths = <<>> /\ im_exists = {}
        /\ im_status \in {0, 400}

C37_Witness ==
    /\ DangerAsked /\ ~im_allow
    /\ im_urls > 0
    /\ im_stream
    /\ im_pc = "left" /\ im_status = 400

-----------------------------------------------------------------------------
(* Claims about the sanitized last message (SpecRun) *)

\* the text run_codex_last_message sanitizes: the captured file, else stdout
TextUsed ==
    IF CapturedText # <<>> THEN CapturedText ELSE DecodeIgnore(Concat(stdout_all))

\* C38: the string run_codex_last_message returns is always the sanitized form
\* of the captured text, so it holds no line the filter drops, also when the
\* captured text consists of such lines only.
C38_ResultIsSanitized ==
    LastMessageReturned => result = _sanitize_codex_text(TextUsed)

-----------------------------------------------------------------------------
(* Claims about the listed identifiers (SpecRegistry) *)

\* choose_model was called with an identifier that
\* get_available_models(include_reasoning_aliases=True) returned
ListedAsked ==
    /\ rd.call = "choose_model"
    /\ rd.requested # <<>>
    /\ rd.requested \in
          Range(rd.before)
          \cup {base \o <<" ">> \o REASONING_EFFORT_SUFFIXES[i] :
                  base \in Range(rd.before), i \in DOMAIN REASONING_EFFORT_SUFFIXES}

\* C39: every identifier get_available_models(include_reasoning_aliases=True)
\* returns is accepted by choose_model: a base identifier resolves to itself
\* with no effort, an alias "<base> <effort>" to that base and that effort,
\* whatever the catalog.
C39_ListedIsAccepted ==
    ListedAsked =>
        /\ rd.kind = "model"
        /\ IF rd.requested \in Range(rd.before)
           THEN rd.model = rd.requested /\ rd.effort = NoneStr
           ELSE rd.requested = rd.model \o <<" ">> \o rd.effort

-----------------------------------------------------------------------------
(* Claims about the children of discovery (SpecDiscovery) *)

\* a child that was launched and whose exit has not been collected
Unreaped(proc) == proc \in {"running", "exited"}

\* C40: during list_codex_models at most one discovery child is alive at any
\* time: the child of a listing attempt and the child of the probe have each
\* exited and been reaped before the next strategy is launched and before the
\* function returns or raises.
C40_OneChildAtATime ==
    /\ ~(Unreaped(disc_child) /\ Unreaped(pr_child))
    /\ disc_pc \in {"attempt", "proto_start", "config", "done"} =>
          ~Unreaped(disc_child) /\ ~Unreaped(pr_child)
    /\ disc_pc = "proto" => ~Unreaped(disc_child)
    /\ disc_pc = "proto" /\ pr_pc = "done" => ~Unreaped(pr_child)

\* a listing child timed out and was killed, the probe child was killed too,
\* and discovery has ended
C40_Witness ==
    /\ disc_pc = "done"
    /\ Len(disc_errors) > 0 /\ disc_errors[1].reason = "timed out"
    /\ pr_child = "reaped"
    /\ "kill" \in Range(pr_cleanup)

=============================================================================
